---- MODULE Spec2Model ----
(***************************************************************************)
(* Model of lawquotecollector: the dedup & persistence layer (storage.py,  *)
(* cli.py, validators.py) and the extraction runs (scraper.py, sites/).    *)
(*                                                                         *)
(* A Python str is a sequence of one-character strings, so that strip()    *)
(* and lower() are computed character by character.  A CSV file is the     *)
(* sequence of its records, the header record first; every record is a     *)
(* tuple of cells.                                                         *)
(***************************************************************************)
EXTENDS Integers, Sequences, FiniteSets, TLC

VARIABLES
    fs,      \* the two files: fs.csv (the store) and fs.bak (its .bak sibling)
    op,      \* the operation that acted last
    pre,     \* the store file before the first operation
    xs,      \* the contact list handed to the operations
    pc,      \* position of the running update_names_in_csv call
    mem,     \* local variables of the running update_names_in_csv call
    orig,    \* the store file before the run that was interrupted
    crashed, \* an update_names_in_csv run was interrupted
    res,     \* what each operation returned and left in the files, in order
    procs,   \* local state of the concurrent save_contacts_csv runs
    crawl,   \* options and local variables of the running extraction
    log,     \* the requests and delays of the extraction so far, in order
    REGISTRY \* sites/__init__.py: _REGISTRY, site key -> parser

vars == <<fs, op, pre, xs, pc, mem, orig, crashed, res, procs, crawl, log, REGISTRY>>

----------------------------------------------------------------------------
(* Bounds of the model *)

MaxList == 2   \* longest contact list handed to an operation
MaxDedupe == 3 \* longest contact list handed to dedupe_contacts
MaxRows == 2   \* most data rows of a store file
MaxPieces == 3 \* most pieces an email candidate is put together from
MaxAnchors == 2 \* most anchors of a page
MaxPerPage == 2 \* most contacts found on one page of a paginated listing
MaxProfiles == 2 \* most names on a listing of profiles
MaxRegisters == 2 \* most calls of register after start-up

----------------------------------------------------------------------------
(* Python values *)

\* Python's None; no str equals it
None == <<"<None>">>

\* bool(v) of an Optional[str]
Truthy(v) == v /= None /\ v /= <<>>

\* v or ""
OrEmpty(v) == IF Truthy(v) THEN v ELSE <<>>

UpperChars == <<"A","B","C","D","E","F","G","H","I","J","K","L","M",
                "N","O","P","Q","R","S","T","U","V","W","X","Y","Z">>
LowerChars == <<"a","b","c","d","e","f","g","h","i","j","k","l","m",
                "n","o","p","q","r","s","t","u","v","w","x","y","z">>
Digits == {"0","1","2","3","4","5","6","7","8","9"}
WhiteSpace == {" ", "\t", "\n", "\r"}

UpperSet == {UpperChars[i] : i \in 1..26}
Letters == UpperSet \cup {LowerChars[i] : i \in 1..26}

\* the lower-case letter of every upper-case letter
LowerOf == [ch \in UpperSet |-> LowerChars[CHOOSE i \in 1..26 : UpperChars[i] = ch]]

IsLetter(ch) == ch \in Letters

\* str.lower() on one character
LowerChar(ch) == IF ch \in UpperSet THEN LowerOf[ch] ELSE ch

\* str.lower()
lower(s) == [i \in 1..Len(s) |-> LowerChar(s[i])]

RECURSIVE lstrip(_)
lstrip(s) == IF s /= <<>> /\ Head(s) \in WhiteSpace THEN lstrip(Tail(s)) ELSE s

RECURSIVE rstrip(_)
rstrip(s) ==
    IF s /= <<>> /\ s[Len(s)] \in WhiteSpace THEN rstrip(SubSeq(s, 1, Len(s) - 1)) ELSE s

\* str.strip()
strip(s) == rstrip(lstrip(s))

\* the key every function of storage.py uses: email.strip().lower()
Norm(s) == lower(strip(s))

\* needle in hay, for two str
Contains(hay, needle) ==
    \E i \in 0..(Len(hay) - Len(needle)) : SubSeq(hay, i + 1, i + Len(needle)) = needle

----------------------------------------------------------------------------
(* validators.py *)

\* the punctuation of the local part (the grave accent, which the module's
\* lexer cannot hold in a string, is left out; no input of the model has it)
LocalPunct == {".","!","#","$","%","&","'","*","+","/","=","?","^","_","{","|","}","~","-"}
IsLocalChar(ch) == IsLetter(ch) \/ ch \in Digits \/ ch \in LocalPunct
IsLabelChar(ch) == IsLetter(ch) \/ ch \in Digits \/ ch = "-"

\* the obfuscation markers of is_valid_email
RedactionTokens ==
    { <<" ","[","a","t","]"," ">>, <<"(","a","t",")">>,
      <<" ","[","d","o","t","]"," ">>, <<"(","d","o","t",")">> }

\* ([A-Za-z0-9-]+\.)+[A-Za-z]{2,}$ : the labels are the pieces between the
\* dots (a label character is never a dot), at least one of them before
\* the last, which is two or more letters
MatchesDomain(d) ==
    LET dots == {i \in 1..Len(d) : d[i] = "."}
        cut == {0} \cup dots \cup {Len(d) + 1}
        last == IF dots = {} THEN 0 ELSE CHOOSE i \in dots : \A j \in dots : j <= i
    IN  /\ dots /= {}
        /\ \A i \in 1..Len(d) : d[i] = "." \/ IsLabelChar(d[i])
        /\ \A i \in cut : (i + 1) \notin cut \/ i = Len(d) + 1
        /\ Len(d) - last >= 2
        /\ \A i \in (last + 1)..Len(d) : IsLetter(d[i])

\* EMAIL_REGEX.match(candidate) is not None
MatchesEmailRegex(s) ==
    LET ats == {i \in 1..Len(s) : s[i] = "@"}
        at == IF ats = {} THEN 0 ELSE CHOOSE i \in ats : \A j \in ats : i <= j
    IN  /\ at > 1
        /\ \A i \in 1..(at - 1) : IsLocalChar(s[i])
        /\ MatchesDomain(SubSeq(s, at + 1, Len(s)))

\* an address is searched for anywhere in the text, as cli.py's email_re is
is_valid_email_search(email) ==
    IF ~Truthy(email) THEN FALSE
    ELSE \E i, j \in 1..Len(email) : i <= j /\ MatchesEmailRegex(SubSeq(email, i, j))

is_valid_email(email) ==
    IF ~Truthy(email) THEN FALSE
    ELSE LET candidate == strip(email)
         IN  IF \E t \in RedactionTokens : Contains(lower(candidate), t) THEN FALSE
             ELSE MatchesEmailRegex(candidate)

----------------------------------------------------------------------------
(* storage.py: Contact, dedupe_contacts *)

Contact(n, e, a, u) == [name |-> n, email |-> e, affiliation |-> a, source_url |-> u]

RECURSIVE dedupe_loop(_, _, _, _)
\* the for loop of dedupe_contacts, from contacts[i] on
dedupe_loop(contacts, i, seen, unique) ==
    IF i > Len(contacts) THEN unique
    ELSE LET c == contacts[i]
             key == Norm(c.email)
         IN  IF key \in seen
             THEN dedupe_loop(contacts, i + 1, seen, unique)
             ELSE dedupe_loop(contacts, i + 1, seen \cup {key}, Append(unique, c))

RECURSIVE dedupe_keep_last(_)
dedupe_keep_last(contacts) ==
    IF contacts = <<>> THEN <<>>
    ELSE LET c == Head(contacts)
             rest == Tail(contacts)
         IN  IF \E j \in 1..Len(rest) : Norm(rest[j].email) = Norm(c.email)
             THEN dedupe_keep_last(rest)
             ELSE <<c>> \o dedupe_keep_last(rest)

dedupe_contacts(contacts) == dedupe_loop(contacts, 1, {}, <<>>)

----------------------------------------------------------------------------
(* CSV files as csv.DictWriter writes them and csv.DictReader reads them *)

CSV_HEADERS == << <<"n","a","m","e">>, <<"e","m","a","i","l">>,
                  <<"a","f","f","i","l","i","a","t","i","o","n">>,
                  <<"s","o","u","r","c","e","_","u","r","l">> >>
NAME == CSV_HEADERS[1]
EMAIL == CSV_HEADERS[2]
AFFILIATION == CSV_HEADERS[3]
SOURCE_URL == CSV_HEADERS[4]

\* a path with no file, and a file holding the records recs
Absent == [exists |-> FALSE, recs |-> <<>>]
FileOf(recs) == [exists |-> TRUE, recs |-> recs]

\* the csv writer writes None as the empty cell
Cell(v) == IF v = None THEN <<>> ELSE v

\* DictWriter(fieldnames).writerow(d): the cells of d in the order of fieldnames
WriteRow(fieldnames, d) ==
    [i \in 1..Len(fieldnames) |->
        IF fieldnames[i] \in DOMAIN d THEN Cell(d[fieldnames[i]]) ELSE <<>>]

\* dataclasses.asdict(c)
asdict(c) == (NAME :> c.name) @@ (EMAIL :> c.email)
             @@ (AFFILIATION :> c.affiliation) @@ (SOURCE_URL :> c.source_url)

\* dict(zip(fieldnames, cells)): a repeated field name keeps its last cell
ZipDict(fieldnames, cells) ==
    [k \in {fieldnames[i] : i \in 1..Len(fieldnames)} |->
        cells[CHOOSE i \in 1..Len(fieldnames) :
                 /\ fieldnames[i] = k
                 /\ \A j \in 1..Len(fieldnames) : fieldnames[j] = k => j <= i]]

\* list(DictReader(f)): one dict for every record after the first
ReaderRows(file) ==
    IF file.recs = <<>> THEN <<>>
    ELSE [i \in 1..(Len(file.recs) - 1) |-> ZipDict(file.recs[1], file.recs[i + 1])]

\* row.get(key)
Get(row, key) == IF key \in DOMAIN row THEN row[key] ELSE None

\* row[key] = value
Put(row, key, value) == (key :> value) @@ row

----------------------------------------------------------------------------
(* storage.py: save_contacts_csv *)

OpenModeTruncate(file, append) == "w"

\* mode = "a" if append and os.path.exists(path) else "w"
OpenMode(file, append) == IF append /\ file.exists THEN "a" ELSE "w"

\* the emails save_contacts_csv loads from the file it appends to
ExistingEmailsNoLower(file) ==
    {strip(OrEmpty(Get(ReaderRows(file)[i], EMAIL))) : i \in 1..Len(ReaderRows(file))}
        \ {<<>>}
ExistingEmails(file) ==
    {Norm(OrEmpty(Get(ReaderRows(file)[i], EMAIL))) : i \in 1..Len(ReaderRows(file))}
        \ {<<>>}

RECURSIVE write_loop_no_add(_, _, _, _)
write_loop_no_add(contacts, i, existing_emails, written) ==
    IF i > Len(contacts) THEN written
    ELSE LET c == contacts[i]
             em_key == Norm(c.email)
         IN  IF em_key \in existing_emails
             THEN write_loop_no_add(contacts, i + 1, existing_emails, written)
             ELSE write_loop_no_add(contacts, i + 1, existing_emails,
                                    Append(written, WriteRow(CSV_HEADERS, asdict(c))))

RECURSIVE write_loop(_, _, _, _)
\* the for loop of save_contacts_csv, from contacts[i] on: the records written
write_loop(contacts, i, existing_emails, written) ==
    IF i > Len(contacts) THEN written
    ELSE LET c == contacts[i]
             em_key == Norm(c.email)
         IN  IF em_key \in existing_emails
             THEN write_loop(contacts, i + 1, existing_emails, written)
             ELSE write_loop(contacts, i + 1, existing_emails \cup {em_key},
                             Append(written, WriteRow(CSV_HEADERS, asdict(c))))

\* open(path, mode): "w" truncates or creates, "a" keeps what is there
Opened(file, mode) == IF mode = "w" THEN FileOf(<<>>) ELSE FileOf(file.recs)

\* save_contacts_csv(path, contacts, append): the file afterwards and the count
save_contacts_csv(file, contacts, append) ==
    LET mode == OpenMode(file, append)
        existing_emails == IF mode = "a" THEN ExistingEmails(file) ELSE {}
        written == write_loop(contacts, 1, existing_emails, <<>>)
        header == IF mode = "w" THEN <<CSV_HEADERS>> ELSE <<>>
    IN  [file |-> FileOf(Opened(file, mode).recs \o header \o written),
         count |-> Len(written)]

----------------------------------------------------------------------------
(* storage.py: save_contacts_sqlite.  The table law_contacts is the sequence
   of its rows; email TEXT UNIQUE compares the stored text as it is (BINARY
   collation), and NULL never conflicts. *)

\* INSERT OR IGNORE of one row: is it ignored?
Conflicts(table, c) ==
    c.email /= None /\ \E i \in 1..Len(table) : table[i].email = c.email

RECURSIVE insert_loop(_, _, _, _)
\* the for loop of save_contacts_sqlite, from contacts[i] on
insert_loop(contacts, i, table, inserted) ==
    IF i > Len(contacts) THEN [table |-> table, count |-> inserted]
    ELSE IF Conflicts(table, contacts[i])
         THEN insert_loop(contacts, i + 1, table, inserted)
         ELSE insert_loop(contacts, i + 1, Append(table, contacts[i]), inserted + 1)

\* save_contacts_sqlite(path, contacts): the table afterwards and the count
save_contacts_sqlite(table, contacts) == insert_loop(contacts, 1, table, 0)

----------------------------------------------------------------------------
(* cli.py: _save with fmt = "csv" *)

filter_valid(contacts) == SelectSeq(contacts, LAMBDA c : is_valid_email(c.email))

\* _save without the is_valid_email filter
cli_save_unfiltered(file, contacts, append) ==
    save_contacts_csv(file, dedupe_contacts(contacts), append)

cli_save(file, contacts, append) ==
    save_contacts_csv(file, dedupe_contacts(filter_valid(contacts)), append)

\* _save with fmt = "sqlite"
cli_save_sqlite(table, contacts) ==
    save_contacts_sqlite(table, dedupe_contacts(filter_valid(contacts)))

----------------------------------------------------------------------------
(* storage.py: save_names_csv *)

RECURSIVE names_loop(_, _, _, _)
\* the for loop of save_names_csv, from names[i] on: the records written
names_loop(names, i, affiliation, source_url) ==
    IF i > Len(names) THEN <<>>
    ELSE LET name == strip(OrEmpty(names[i]))
             row == (NAME :> name) @@ (EMAIL :> <<>>)
                    @@ (AFFILIATION :> OrEmpty(affiliation))
                    @@ (SOURCE_URL :> OrEmpty(source_url))
         IN  (IF name = <<>> THEN <<>> ELSE <<WriteRow(CSV_HEADERS, row)>>)
             \o names_loop(names, i + 1, affiliation, source_url)

save_names_csv(file, names, affiliation, source_url, overwrite) ==
    LET mode == IF overwrite \/ ~file.exists THEN "w" ELSE "a"
        written == names_loop(names, 1, affiliation, source_url)
        header == IF mode = "w" THEN <<CSV_HEADERS>> ELSE <<>>
    IN  [file |-> FileOf(Opened(file, mode).recs \o header \o written),
         count |-> Len(written)]

----------------------------------------------------------------------------
(* storage.py: update_names_in_csv *)

RECURSIVE map_loop(_, _, _)
\* the loop that builds email_to_name, from contacts[i] on
map_loop(contacts, i, email_to_name) ==
    IF i > Len(contacts) THEN email_to_name
    ELSE LET c == contacts[i]
             key == Norm(c.email)
         IN  IF Truthy(c.email) /\ Truthy(c.name)
                /\ key /= <<>> /\ key \notin DOMAIN email_to_name
             THEN map_loop(contacts, i + 1, email_to_name @@ (key :> strip(c.name)))
             ELSE map_loop(contacts, i + 1, email_to_name)

RECURSIVE map_loop_raw(_, _, _)
map_loop_raw(contacts, i, email_to_name) ==
    IF i > Len(contacts) THEN email_to_name
    ELSE LET c == contacts[i]
             key == Norm(c.email)
         IN  IF Truthy(c.email) /\ Truthy(c.name)
                /\ key /= <<>> /\ key \notin DOMAIN email_to_name
             THEN map_loop_raw(contacts, i + 1, email_to_name @@ (key :> c.name))
             ELSE map_loop_raw(contacts, i + 1, email_to_name)

RECURSIVE map_loop_last(_, _, _)
map_loop_last(contacts, i, email_to_name) ==
    IF i > Len(contacts) THEN email_to_name
    ELSE LET c == contacts[i]
             key == Norm(c.email)
         IN  IF Truthy(c.email) /\ Truthy(c.name) /\ key /= <<>>
             THEN map_loop_last(contacts, i + 1, (key :> strip(c.name)) @@ email_to_name)
             ELSE map_loop_last(contacts, i + 1, email_to_name)

EmailToNameRaw(contacts) == map_loop_raw(contacts, 1, [k \in {} |-> <<>>])
EmailToNameLast(contacts) == map_loop_last(contacts, 1, [k \in {} |-> <<>>])

\* email_to_name, built from the provided contacts
EmailToName(contacts) == map_loop(contacts, 1, [k \in {} |-> <<>>])

update_row_keyed(row, email_to_name) ==
    LET em == Norm(OrEmpty(Get(row, EMAIL)))
        current_name == strip(OrEmpty(Get(row, NAME)))
    IN  IF em /= <<>> /\ em \in DOMAIN email_to_name
        THEN [row |-> Put(Put(row, EMAIL, em), NAME, email_to_name[em]),
              updated |-> IF current_name /= email_to_name[em] THEN 1 ELSE 0]
        ELSE [row |-> row, updated |-> 0]

\* the body of the loop over the reader: the row as appended to rows, and
\* whether it counted as updated
update_row(row, email_to_name) ==
    LET em == Norm(OrEmpty(Get(row, EMAIL)))
        current_name == strip(OrEmpty(Get(row, NAME)))
    IN  IF em /= <<>> /\ em \in DOMAIN email_to_name
           /\ current_name /= email_to_name[em]
        THEN [row |-> Put(row, NAME, email_to_name[em]), updated |-> 1]
        ELSE [row |-> row, updated |-> 0]

\* fieldnames = reader.fieldnames or CSV_HEADERS
Fieldnames(file) == IF file.recs = <<>> THEN CSV_HEADERS ELSE file.recs[1]

RECURSIVE Sum(_, _)
Sum(f, i) == IF i > Len(f) THEN 0 ELSE f[i] + Sum(f, i + 1)

\* the read half of update_names_in_csv: its locals when the file is closed
update_read(file, contacts) ==
    LET email_to_name == EmailToName(contacts)
        read == ReaderRows(file)
        done == [i \in 1..Len(read) |-> update_row(read[i], email_to_name)]
    IN  [fieldnames |-> Fieldnames(file),
         rows |-> [i \in 1..Len(done) |-> done[i].row],
         updated |-> Sum([i \in 1..Len(done) |-> done[i].updated], 1)]

\* the records the write half writes: the header, then every row
update_records(m) ==
    <<m.fieldnames>> \o [i \in 1..Len(m.rows) |-> WriteRow(m.fieldnames, m.rows[i])]

\* a whole update_names_in_csv(path, contacts) call that nothing interrupts:
\* the two files afterwards, whether it raised FileNotFoundError, and the count
update_names_in_csv(files, contacts) ==
    IF ~files.csv.exists
    THEN [files |-> files, raised |-> TRUE, updated |-> 0]
    ELSE LET m == update_read(files.csv, contacts)
         IN  [files |-> [csv |-> FileOf(update_records(m)), bak |-> files.csv, db |-> files.db],
              raised |-> FALSE, updated |-> m.updated]

----------------------------------------------------------------------------
(* sites/generic.py: the parser of a single page.  A page is the sequence of
   its <a href> elements in document order.  Of an anchor the model keeps
     href, text   the attribute and get_text(" ", strip=True)
     within       the headings inside the anchor: [tag, text]
     siblings     the element children of the parent, in order:
                  [kind, text], kind "heading" (h1-h6, strong) or "hinted"
                  (a class with name, person, faculty or profile)
     ancestors    the parent and the elements above it, nearest first: of
                  each, named (the texts of the nodes its name selectors
                  pick), directory_name (the text of its h3.directory-name,
                  None without one) and headings (its heading descendants in
                  document order: [tag, text])
     previous     the headings before the anchor, nearest first: [tag, text] *)

StartsWith(s, prefix) == Len(s) >= Len(prefix) /\ SubSeq(s, 1, Len(prefix)) = prefix

\* the first position of ch in s, 0 when it is not there
Find(s, ch) ==
    IF \E i \in 1..Len(s) : s[i] = ch
    THEN CHOOSE i \in 1..Len(s) : s[i] = ch /\ \A j \in 1..(i - 1) : s[j] /= ch
    ELSE 0

\* s.split(ch, 1)[1], for s that has ch
AfterFirst(s, ch) == SubSeq(s, Find(s, ch) + 1, Len(s))

\* s.split(ch, 1)[0]
BeforeFirst(s, ch) == IF Find(s, ch) = 0 THEN s ELSE SubSeq(s, 1, Find(s, ch) - 1)

\* len(s.split())
WordCount(s) ==
    Cardinality({i \in 1..Len(s) :
                    s[i] \notin WhiteSpace /\ (i = 1 \/ s[i - 1] \in WhiteSpace)})

MAILTO == <<"m","a","i","l","t","o",":">>

extract_email_from_mailto(href) ==
    IF ~StartsWith(lower(href), MAILTO) THEN None
    ELSE LET address == strip(BeforeFirst(AfterFirst(href, ":"), "?"))
         IN  IF address = <<>> THEN None ELSE address

\* the first text of a sequence of texts that ok accepts, None without one
FirstText(texts, ok(_)) ==
    IF \E i \in 1..Len(texts) : ok(texts[i])
    THEN texts[CHOOSE i \in 1..Len(texts) : ok(texts[i]) /\ \A j \in 1..(i - 1) : ~ok(texts[j])]
    ELSE None

\* the first n elements of a sequence: find_all(..., limit=n)
Limit(list, n) == SubSeq(list, 1, IF Len(list) < n THEN Len(list) ELSE n)

\* the texts of the elements of a sequence that have one of the tags
TextsOf(elements, tags) ==
    LET kept == SelectSeq(elements, LAMBDA e : e.tag \in tags)
    IN  [i \in 1..Len(kept) |-> kept[i].text]

HeadingTags == {"h1", "h2", "h3", "h4", "h5", "h6", "strong"}

\* text and "@" not in text and len(text.split()) <= n
NameLike(text, n) == text /= <<>> /\ ~Contains(text, <<"@">>) /\ WordCount(text) <= n

\* the loop over at most `most` ancestors, nearest first: the first text
\* that pick(level) gives, None without one
first_over_levels(levels, most, pick(_)) ==
    LET n == IF Len(levels) < most THEN Len(levels) ELSE most
    IN  IF \E i \in 1..n : pick(levels[i]) /= None
        THEN pick(levels[CHOOSE i \in 1..n :
                            pick(levels[i]) /= None /\ \A j \in 1..(i - 1) : pick(levels[j]) = None])
        ELSE None

\* lines 23-36: the loop over the children of the parent
generic_siblings(anchor) ==
    IF anchor.ancestors = <<>> THEN None
    ELSE LET kept == SelectSeq(anchor.siblings, LAMBDA e : e.kind \in {"heading", "hinted"})
         IN  FirstText([i \in 1..Len(kept) |-> kept[i].text], LAMBDA t : NameLike(t, 8))

\* lines 38-47: the headings under the parent and the two elements above it
generic_ancestors(anchor) ==
    first_over_levels(anchor.ancestors, 3,
        LAMBDA level : FirstText(Limit(TextsOf(level.headings, HeadingTags), 3),
                                 LAMBDA t : NameLike(t, 8)))

nearest_name(anchor) ==
    LET anchor_text == strip(OrEmpty(anchor.text))
    IN  IF anchor_text /= <<>> /\ ~Contains(anchor_text, <<"@">>) /\ WordCount(anchor_text) <= 6
        THEN anchor_text
        ELSE IF generic_siblings(anchor) /= None THEN generic_siblings(anchor)
        ELSE generic_ancestors(anchor)

RECURSIVE generic_loop(_, _, _, _, _)
generic_loop(anchors, i, base_affiliation, src, contacts) ==
    IF i > Len(anchors) THEN contacts
    ELSE LET email == extract_email_from_mailto(anchors[i].href)
         IN  IF ~Truthy(email) \/ ~is_valid_email(email)
             THEN generic_loop(anchors, i + 1, base_affiliation, src, contacts)
             ELSE generic_loop(anchors, i + 1, base_affiliation, src,
                      Append(contacts, Contact(nearest_name(anchors[i]), email, base_affiliation, src)))

\* parse_contacts(soup, page_url, affiliation, source_url) of sites/generic.py
generic_parse_contacts(anchors, page_url, affiliation, source_url) ==
    generic_loop(anchors, 1, affiliation,
                 IF Truthy(source_url) THEN source_url ELSE page_url, <<>>)

----------------------------------------------------------------------------
(* The name search of the other site parsers, on the same anchors *)

\* the anchor itself as the first container of a walk upwards
Containers(anchor) ==
    <<[named |-> <<>>, directory_name |-> None, headings |-> anchor.within]>>
    \o anchor.ancestors

\* columbia_law._candidate_text
candidate_text(text) ==
    IF NameLike(strip(text), 12) /\ WordCount(strip(text)) >= 1 THEN strip(text) ELSE None

\* columbia_law._find_name
find_name(anchor) ==
    LET up == first_over_levels(Containers(anchor), 5,
                  LAMBDA level :
                      IF FirstText(level.named, LAMBDA t : candidate_text(t) /= None) /= None
                      THEN candidate_text(FirstText(level.named, LAMBDA t : candidate_text(t) /= None))
                      ELSE LET hs == Limit(TextsOf(level.headings, HeadingTags), 3)
                           IN  IF FirstText(hs, LAMBDA t : candidate_text(t) /= None) /= None
                               THEN candidate_text(FirstText(hs, LAMBDA t : candidate_text(t) /= None))
                               ELSE None)
        prev == FirstText(Limit(TextsOf(anchor.previous, HeadingTags), 6),
                          LAMBDA t : candidate_text(t) /= None)
    IN  IF up /= None THEN up
        ELSE IF prev /= None THEN candidate_text(prev)
        ELSE candidate_text(anchor.text)

\* yale_law._nearest_name_from_email_anchor
yale_nearest_name(anchor) ==
    LET ok(t) == NameLike(strip(t), 12) /\ WordCount(strip(t)) >= 1
        up == first_over_levels(Containers(anchor), 4,
                  LAMBDA level : FirstText(Limit(TextsOf(level.headings, HeadingTags), 2), ok))
        prev == FirstText(Limit(TextsOf(anchor.previous, HeadingTags), 10), ok)
    IN  IF up /= None THEN strip(up)
        ELSE IF prev /= None THEN strip(prev)
        ELSE IF ok(anchor.text) THEN strip(anchor.text)
        ELSE None

\* duke_law: button_labels
S_email == <<"e","m","a","i","l">>
S_e_mail == <<"e","-","m","a","i","l">>
S_contact == <<"c","o","n","t","a","c","t">>
S_send_email == <<"s","e","n","d"," ","e","m","a","i","l">>
button_labels == {S_email, S_e_mail, S_contact, S_send_email}

\* duke_law._nearest_name
duke_nearest_name(anchor) ==
    LET raw_text == strip(anchor.text)
        is_mailto_anchor == StartsWith(lower(strip(anchor.href)), MAILTO)
        ok(t) == strip(t) /= <<>> /\ ~Contains(strip(t), <<"@">>)
        plain(t) == ok(t) /\ lower(strip(t)) \notin button_labels
        up == first_over_levels(anchor.ancestors, 6,
                  LAMBDA level :
                      IF level.directory_name /= None /\ ok(level.directory_name)
                      THEN strip(level.directory_name)
                      ELSE LET hs == Limit(TextsOf(level.headings, {"h1", "h2", "h3", "h4"}), 2)
                           IN  IF FirstText(hs, plain) /= None THEN strip(FirstText(hs, plain))
                               ELSE None)
        last == IF anchor.ancestors = <<>> THEN None
                ELSE FirstText(Limit(TextsOf(anchor.ancestors[1].headings,
                                             {"h1", "h2", "h3", "h4", "strong"}), 4), plain)
    IN  IF raw_text /= <<>> /\ ~is_mailto_anchor /\ lower(raw_text) \notin button_labels
           /\ ~Contains(raw_text, <<"@">>) /\ WordCount(raw_text) >= 1 /\ WordCount(raw_text) <= 8
        THEN raw_text
        ELSE IF up /= None THEN up
        ELSE IF last /= None THEN strip(last)
        ELSE None

----------------------------------------------------------------------------
(* duke_law.py, nyu_law.py, harvard_law.py: the parsers of a single page *)

RECURSIVE unquote(_)
\* urllib.parse.unquote, for the escapes %40 and %20
unquote(t) ==
    IF t = <<>> THEN <<>>
    ELSE IF Len(t) >= 3 /\ SubSeq(t, 1, 3) = <<"%","4","0">> THEN <<"@">> \o unquote(SubSeq(t, 4, Len(t)))
    ELSE IF Len(t) >= 3 /\ SubSeq(t, 1, 3) = <<"%","2","0">> THEN <<" ">> \o unquote(SubSeq(t, 4, Len(t)))
    ELSE <<t[1]>> \o unquote(Tail(t))

\* duke_law._extract_email
duke_extract_email(href) ==
    LET lower1 == strip(OrEmpty(href))
    IN  IF lower1 = <<>> \/ ~StartsWith(lower(lower1), MAILTO) THEN None
        ELSE LET addr == unquote(strip(BeforeFirst(AfterFirst(lower1, ":"), "?")))
             IN  IF addr = <<>> THEN None ELSE addr

\* nyu_law._extract_email
nyu_extract_email(href) ==
    LET h == strip(OrEmpty(href))
    IN  IF h = <<>> \/ ~StartsWith(lower(h), MAILTO) THEN None
        ELSE LET addr == strip(BeforeFirst(AfterFirst(h, ":"), "?"))
             IN  IF addr = <<>> THEN None ELSE addr

RECURSIVE duke_unique_anchors(_, _, _, _)
\* duke_law lines 97-106: the profile elements, the first of each text and href
duke_unique_anchors(elements, i, seen_anchor_keys, unique_anchors) ==
    IF i > Len(elements) THEN unique_anchors
    ELSE LET key == <<lower(strip(elements[i].text)), elements[i].href>>
         IN  IF key \in seen_anchor_keys
             THEN duke_unique_anchors(elements, i + 1, seen_anchor_keys, unique_anchors)
             ELSE duke_unique_anchors(elements, i + 1, seen_anchor_keys \cup {key},
                                      Append(unique_anchors, elements[i]))

RECURSIVE duke_profiles_loop(_, _, _, _, _, _)
\* duke_law lines 108-153: one contact for each profile element, with the
\* address of the mailto link found around it, or without an address.
\* An element is an anchor with one more field, mailto: the href of that
\* link, None without one.  Gives [contacts, seen].
duke_profiles_loop(elements, i, page_url, affiliation, seen, contacts) ==
    IF i > Len(elements) THEN [contacts |-> contacts, seen |-> seen]
    ELSE LET a == elements[i]
             text == strip(a.text)
             name == IF text /= <<>> THEN text ELSE OrEmpty(duke_nearest_name(a))
             found == IF a.mailto = None THEN <<>> ELSE OrEmpty(duke_extract_email(a.mailto))
             email == IF found /= <<>> /\ ~is_valid_email(found) THEN <<>> ELSE found
             dedupe_key == IF email /= <<>> THEN <<"email", lower(strip(email))>>
                           ELSE <<"name", lower(strip(name))>>
         IN  IF dedupe_key \in seen
             THEN duke_profiles_loop(elements, i + 1, page_url, affiliation, seen, contacts)
             ELSE duke_profiles_loop(elements, i + 1, page_url, affiliation,
                      seen \cup {dedupe_key},
                      Append(contacts, Contact(IF name = <<>> THEN None ELSE name,
                                               email, affiliation, page_url)))

RECURSIVE duke_mailto_loop(_, _, _, _, _, _)
\* duke_law lines 157-167: the mailto anchors not yet taken
duke_mailto_loop(anchors, i, page_url, affiliation, seen, contacts) ==
    IF i > Len(anchors) THEN contacts
    ELSE LET email == OrEmpty(duke_extract_email(anchors[i].href))
             key == <<"email", lower(strip(email))>>
         IN  IF email = <<>> \/ ~is_valid_email(email) \/ key \in seen
             THEN duke_mailto_loop(anchors, i + 1, page_url, affiliation, seen, contacts)
             ELSE LET name == OrEmpty(duke_nearest_name(anchors[i]))
                  IN  duke_mailto_loop(anchors, i + 1, page_url, affiliation, seen \cup {key},
                          Append(contacts, Contact(IF name = <<>> THEN None ELSE name,
                                                   email, affiliation, page_url)))

\* duke_law._contacts_from_soup on a page with these profile elements and
\* these mailto anchors
duke_contacts_from_soup(profiles, mailtos, page_url, affiliation) ==
    LET first == duke_profiles_loop(duke_unique_anchors(profiles, 1, {}, <<>>), 1,
                                    page_url, affiliation, {}, <<>>)
    IN  duke_mailto_loop(mailtos, 1, page_url, affiliation, first.seen, first.contacts)

RECURSIVE nyu_loop(_, _, _, _, _, _)
\* nyu_law.parse_contacts: a row is [name, cells, fourth, any]: the text of
\* the name cell, the number of .list elements of its parent, the href of the
\* mailto link of the fourth of them and of the first one under the parent
\* (None without one)
nyu_loop(rows, i, page_url, affiliation, seen_emails, contacts) ==
    IF i > Len(rows) THEN contacts
    ELSE LET row == rows[i]
             name_text == IF strip(row.name) = <<>> THEN None ELSE strip(row.name)
             preferred == IF row.cells >= 4 /\ row.fourth /= None
                          THEN nyu_extract_email(row.fourth) ELSE None
             email == IF Truthy(preferred) THEN preferred
                      ELSE IF row.any /= None THEN nyu_extract_email(row.any) ELSE None
         IN  IF Truthy(email) /\ is_valid_email(email) /\ lower(strip(email)) \notin seen_emails
             THEN nyu_loop(rows, i + 1, page_url, affiliation,
                           seen_emails \cup {lower(strip(email))},
                           Append(contacts, Contact(name_text, email, affiliation, page_url)))
             ELSE nyu_loop(rows, i + 1, page_url, affiliation, seen_emails, contacts)

nyu_parse_contacts(rows, page_url, affiliation) == nyu_loop(rows, 1, page_url, affiliation, {}, <<>>)

\* harvard_law lines 34 and 40: the address of an href
harvard_addr(h) ==
    IF Find(h, ":") = 0 THEN <<>> ELSE strip(BeforeFirst(AfterFirst(h, ":"), "?"))

\* harvard_law._extract_profile_email: primary is the href of the link of
\* p.contact_email (None without one), mailtos the hrefs of the mailto links
\* of the profile page in document order
extract_profile_email(primary, mailtos) ==
    IF primary /= None /\ harvard_addr(primary) /= <<>> /\ is_valid_email(harvard_addr(primary))
    THEN harvard_addr(primary)
    ELSE LET addrs == [i \in 1..Len(mailtos) |-> harvard_addr(mailtos[i])]
         IN  FirstText(addrs, LAMBDA t : t /= <<>> /\ is_valid_email(t))

----------------------------------------------------------------------------
(* scraper.py *)

\* what the request for robots.txt comes to: the status of the response (0:
\* no response, urlopen raises URLError) and, for a policy that was
\* retrieved, its verdict for the URL and the user agent
RobotsOutcomes ==
    {[status |-> 200, verdict |-> v] : v \in BOOLEAN}
        \cup {[status |-> st, verdict |-> FALSE] : st \in {0, 401, 403, 404, 500}}

\* RobotFileParser.read() followed by can_fetch(): read() keeps an HTTPError
\* to itself (401 and 403 set disallow_all, any other 4xx sets allow_all, a
\* 5xx leaves the parser unread, for which can_fetch() is False) and lets
\* every other error out
robots_allows(o) ==
    IF o.status = 0 THEN TRUE
    ELSE IF o.status = 200 THEN o.verdict
    ELSE IF o.status \in {401, 403} THEN FALSE
    ELSE IF o.status >= 400 /\ o.status < 500 THEN TRUE
    ELSE FALSE

\* what a page request comes to: the status of the final response, 0 for
\* none (connection error, timeout)
FetchOutcomes == {0, 200, 304, 404, 500}

\* _fetch_html raises: requests.get raises without a response and
\* raise_for_status() for a 4xx or 5xx; page.goto of Playwright raises only
\* without a response
fetch_raises(status, use_playwright, available) ==
    IF use_playwright /\ available
    THEN status = 0
    ELSE status = 0 \/ (status >= 400 /\ status < 600)

\* the local pass of scrape_directory over what the parser returned
RECURSIVE unique_loop(_, _, _, _)
unique_loop(contacts, i, seen, unique) ==
    IF i > Len(contacts) THEN unique
    ELSE LET key == lower(strip(contacts[i].email))
         IN  IF key \in seen
             THEN unique_loop(contacts, i + 1, seen, unique)
             ELSE unique_loop(contacts, i + 1, seen \cup {key}, Append(unique, contacts[i]))

\* scrape_directory without its local pass
scrape_no_local_pass(contacts) == contacts

scrape_unique(contacts) == unique_loop(contacts, 1, {}, <<>>)

----------------------------------------------------------------------------
(* sites/: the parsers that request further pages.  columbia_law, yale_law
   and pennstate_law walk the ?page=N series of a listing; harvard_law
   requests one profile page for each name of the listing.  Of a page the
   model keeps the contacts its mailto links give, in document order
   (`found`); a request is logged as <<"fetch", N, status>>. *)

END_PAGE_YALE == 28
END_PAGE_PENNSTATE == 20
MAX_PAGES == 40

PageWalkers == {"columbia", "yale", "pennstate"}
Sites == PageWalkers \cup {"harvard"}

\* the set of the elements of a sequence
Range(f) == {f[i] : i \in 1..Len(f)}

\* _contacts_from_page of columbia_law keeps every valid address it finds;
\* _contacts_from_soup of yale_law and pennstate_law keeps the first of each
contacts_from_page(site, found) ==
    IF site = "columbia" THEN found ELSE unique_loop(found, 1, {}, <<>>)

\* the condition of the while loop
walk_goes_on_relative(site, start_page, current) ==
    current - start_page <= (IF site = "columbia" THEN MAX_PAGES
                             ELSE IF site = "yale" THEN END_PAGE_YALE
                             ELSE END_PAGE_PENNSTATE)

\* the loop condition with one page more
walk_goes_on_one_more(site, start_page, current) ==
    IF site = "columbia" THEN current - start_page <= MAX_PAGES + 1
    ELSE IF site = "yale" THEN current <= END_PAGE_YALE + 1
    ELSE current <= END_PAGE_PENNSTATE + 1

walk_goes_on(site, start_page, current) ==
    IF site = "columbia" THEN current - start_page <= MAX_PAGES
    ELSE IF site = "yale" THEN current <= END_PAGE_YALE
    ELSE current <= END_PAGE_PENNSTATE

\* the break after a page: columbia_law stops when the page added nothing
stalls_never(site, new_added) == FALSE

stalls(site, new_added) == site = "columbia" /\ new_added = 0

\* the merge loop over the contacts of a page: [contacts, seen, new_added]
RECURSIVE merge_loop(_, _, _, _, _)
merge_loop(page_contacts, i, contacts, seen, new_added) ==
    IF i > Len(page_contacts)
    THEN [contacts |-> contacts, seen |-> seen, new_added |-> new_added]
    ELSE LET key == lower(strip(page_contacts[i].email))
         IN  IF key \in seen
             THEN merge_loop(page_contacts, i + 1, contacts, seen, new_added)
             ELSE merge_loop(page_contacts, i + 1, Append(contacts, page_contacts[i]),
                             seen \cup {key}, new_added + 1)

\* harvard_law._slugify_name for ASCII names: punctuation dropped, runs of
\* whitespace made one hyphen, lower case
RECURSIVE hyphenate(_, _)
hyphenate(s, i) ==
    IF i > Len(s) THEN <<>>
    ELSE IF s[i] \in WhiteSpace
         THEN (IF i > 1 /\ s[i - 1] \in WhiteSpace THEN <<>> ELSE <<"-">>) \o hyphenate(s, i + 1)
         ELSE <<s[i]>> \o hyphenate(s, i + 1)

slugify_name(name) ==
    LET clean == SelectSeq(name, LAMBDA ch : IsLetter(ch) \/ ch \in Digits \/ ch \in WhiteSpace)
    IN  lower(hyphenate(strip(clean), 1))

\* page_url.rstrip("/")
RECURSIVE rstrip_slash(_)
rstrip_slash(s) ==
    IF s /= <<>> /\ s[Len(s)] = "/" THEN rstrip_slash(SubSeq(s, 1, Len(s) - 1)) ELSE s

\* page_url.rstrip("/") + "/" + slug + "/"
profile_url(page_url, name) ==
    rstrip_slash(page_url) \o <<"/">> \o slugify_name(name) \o <<"/">>

----------------------------------------------------------------------------
(* sites/__init__.py: the registry of the site parsers.  A parser is named by
   its module; a key is a string, NoSite stands for None. *)

NoSite == "<None>"
generic_parser == "generic"

\* _REGISTRY[site_key] = parser, with an entry of the key kept as it is
register_keep(registry, site_key, parser) ==
    IF site_key \in DOMAIN registry THEN registry
    ELSE (site_key :> parser) @@ registry

\* _REGISTRY[site_key] = parser
register(registry, site_key, parser) ==
    (site_key :> parser) @@ [k \in DOMAIN registry \ {site_key} |-> registry[k]]

\* get(site_key)
get(registry, site_key) ==
    IF site_key = NoSite \/ site_key = "" THEN generic_parser
    ELSE IF site_key \in DOMAIN registry THEN registry[site_key]
    ELSE generic_parser

\* the try blocks of lines 27-76, in order: the module and the keys it gets
Builtins ==
    << [module |-> "harvard_law", keys |-> <<"harvard">>],
       [module |-> "yale_law", keys |-> <<"yale">>],
       [module |-> "columbia_law", keys |-> <<"columbia">>],
       [module |-> "stanford_law", keys |-> <<"stanford">>],
       [module |-> "pennstate_law", keys |-> <<"pennstate">>],
       [module |-> "duke_law", keys |-> <<"duke">>],
       [module |-> "uchicago_law", keys |-> <<"uchicago", "uchicago_law">>],
       [module |-> "nyu_law", keys |-> <<"nyu">>] >>

\* modules whose source does not compile (the import raises), and modules
\* this tree has no source of (the import may raise or not)
BrokenModules == {"harvard_law", "yale_law", "columbia_law"}
MissingModules == {"stanford_law", "uchicago_law"}

RECURSIVE start_calls(_, _)
\* the calls of register made by the try blocks from the i-th on, when the
\* modules of loaded import and the others raise: <<"register", key, parser>>
start_calls(i, loaded) ==
    IF i > Len(Builtins) THEN <<>>
    ELSE LET b == Builtins[i]
         IN  (IF b.module \in loaded
              THEN [k \in 1..Len(b.keys) |-> <<"register", b.keys[k], b.module>>]
              ELSE <<>>)
             \o start_calls(i + 1, loaded)

RECURSIVE start_up(_, _, _)
\* the registry after the calls from the i-th on
start_up(registry, calls, i) ==
    IF i > Len(calls) THEN registry
    ELSE start_up(register(registry, calls[i][2], calls[i][3]), calls, i + 1)

AllModules == {Builtins[i].module : i \in 1..Len(Builtins)}
PresentModules == AllModules \ (BrokenModules \cup MissingModules)

\* the registry once the package is imported, with no module of MissingModules
StartRegistry == start_up(<<>>, start_calls(1, PresentModules), 1)

----------------------------------------------------------------------------
(* Inputs of the model *)

S_a == <<"a","@","b",".","c","d">>          \* "a@b.cd"
S_A == <<"A","@","b",".","C","d">>          \* "A@b.Cd"
S_sp == <<" ","a","@","b",".","c","d"," ">> \* " a@b.cd "
S_c == <<"c","@","b",".","c","d">>          \* "c@b.cd"
S_J == <<"J">>
S_spJ == <<" ","J">>
S_K == <<"K">>
S_spK == <<" ","K">>
S_X == <<"X">>
S_u == <<"u">>

\* the contacts handed to the operations
InPool ==
    { Contact(None, S_a, None, S_u),
      Contact(S_J, S_A, S_X, S_u),
      Contact(S_spK, S_sp, S_X, S_u),
      Contact(S_J, S_c, S_X, S_u),
      Contact(S_K, <<>>, S_X, S_u),
      Contact(<<" ">>, S_c, None, S_u) }

\* the lists of at most n elements of pool
ListsOf(pool, n) == UNION {[1..k -> pool] : k \in 0..n}

----------------------------------------------------------------------------
(* What the variables hold while a scenario does not use them *)

NoFiles == [csv |-> Absent, bak |-> Absent, db |-> <<>>]
NoMem == [fieldnames |-> <<>>, rows |-> <<>>, updated |-> 0, k |-> 0]
NoCrawl == [pc |-> "none"]

----------------------------------------------------------------------------
(* dedupe_contacts applied once and again to any contact list *)

InitDedupe ==
    /\ xs \in ListsOf(InPool, MaxDedupe)
    /\ op = "input"
    /\ res = <<>>
    /\ fs = NoFiles /\ pre = Absent
    /\ pc = "idle" /\ mem = NoMem /\ orig = Absent /\ crashed = FALSE
    /\ procs = <<>>
    /\ crawl = NoCrawl /\ log = <<>>
    /\ REGISTRY = StartRegistry

DedupeOnce ==
    /\ op = "input"
    /\ res' = <<dedupe_contacts(xs)>>
    /\ op' = "dedupe"
    /\ UNCHANGED <<REGISTRY, fs, pre, xs, pc, mem, orig, crashed, procs, crawl, log>>

DedupeAgain ==
    /\ op = "dedupe"
    /\ res' = Append(res, dedupe_contacts(res[1]))
    /\ op' = "dedupe_again"
    /\ UNCHANGED <<REGISTRY, fs, pre, xs, pc, mem, orig, crashed, procs, crawl, log>>

NextDedupe == DedupeOnce \/ DedupeAgain

SpecDedupe == InitDedupe /\ [][NextDedupe]_vars

----------------------------------------------------------------------------
(* One operation on any store with any contacts, and for save_contacts_csv
   and update_names_in_csv the same call once more *)

\* the records of the stores the scenarios start from
StoreRows ==
    { << <<>>, S_a, S_X, S_u >>,
      << S_J, S_A, S_X, S_u >>,
      << S_spJ, S_c, <<>>, S_u >>,
      << S_K, <<>>, S_X, S_u >> }

\* a store file save_contacts_csv or save_names_csv created
StoresOf(rows, n) == {FileOf(<<CSV_HEADERS>> \o r) : r \in ListsOf(rows, n)}

Init ==
    /\ pre \in {Absent} \cup StoresOf(StoreRows, MaxRows)
    /\ xs \in ListsOf(InPool, MaxList)
    /\ fs = [csv |-> pre, bak |-> Absent, db |-> <<>>]
    /\ op = "input"
    /\ res = <<>>
    /\ pc = "idle" /\ mem = NoMem /\ orig = Absent /\ crashed = FALSE
    /\ procs = <<>>
    /\ crawl = NoCrawl /\ log = <<>>
    /\ REGISTRY = StartRegistry

\* save_contacts_csv(path, xs, append=True)
AppendCall(before, after) ==
    /\ op = before
    /\ LET r == save_contacts_csv(fs.csv, xs, TRUE)
       IN  /\ fs' = [fs EXCEPT !.csv = r.file]
           /\ res' = Append(res, [files |-> fs', count |-> r.count, raised |-> FALSE])
    /\ op' = after
    /\ UNCHANGED <<REGISTRY, pre, xs, pc, mem, orig, crashed, procs, crawl, log>>

\* update_names_in_csv(path, xs)
ReconcileCall(before, after) ==
    /\ op = before
    /\ LET r == update_names_in_csv(fs, xs)
       IN  /\ fs' = r.files
           /\ res' = Append(res, [files |-> fs', count |-> r.updated, raised |-> r.raised])
    /\ op' = after
    /\ UNCHANGED <<REGISTRY, pre, xs, pc, mem, orig, crashed, procs, crawl, log>>

\* the persistence step of a scrape or import-list run:
\* _save(xs, out, "csv", append)
SaveCall(append) ==
    /\ op = "input"
    /\ LET r == cli_save(fs.csv, xs, append)
       IN  /\ fs' = [fs EXCEPT !.csv = r.file]
           /\ res' = Append(res, [files |-> fs', count |-> r.count, raised |-> FALSE])
    /\ op' = IF append THEN "save_append" ELSE "save"
    /\ UNCHANGED <<REGISTRY, pre, xs, pc, mem, orig, crashed, procs, crawl, log>>

\* the names scrape-names hands over: [c.name for c in contacts if c.name]
NamesOf(contacts) ==
    LET named == SelectSeq(contacts, LAMBDA c : Truthy(c.name))
    IN  [i \in 1..Len(named) |-> named[i].name]

\* the write of a scrape-names run:
\* save_names_csv(out, names, affiliation, url, overwrite)
NamesCall(overwrite) ==
    /\ op = "input"
    /\ LET r == save_names_csv(fs.csv, NamesOf(xs), None, S_u, overwrite)
       IN  /\ fs' = [fs EXCEPT !.csv = r.file]
           /\ res' = Append(res, [files |-> fs', count |-> r.count, raised |-> FALSE])
    /\ op' = IF overwrite THEN "names_overwrite" ELSE "names"
    /\ UNCHANGED <<REGISTRY, pre, xs, pc, mem, orig, crashed, procs, crawl, log>>

AppendFirst == AppendCall("input", "append")
AppendSecond == AppendCall("append", "append_again")
ReconcileFirst == ReconcileCall("input", "reconcile")
ReconcileSecond == ReconcileCall("reconcile", "reconcile_again")

SaveAppend == SaveCall(TRUE)
SaveOverwrite == SaveCall(FALSE)
NamesAppend == NamesCall(FALSE)
NamesOverwrite == NamesCall(TRUE)

Next ==
    \/ AppendFirst \/ AppendSecond
    \/ ReconcileFirst \/ ReconcileSecond
    \/ SaveAppend \/ SaveOverwrite
    \/ NamesAppend \/ NamesOverwrite

Spec == Init /\ [][Next]_vars

----------------------------------------------------------------------------
(* update_names_in_csv step by step, on a store nothing else touches; one
   run may be stopped at any step, and later runs follow *)

\* the rows of the stores these runs start from, and the contacts they get
RewriteRows ==
    { << <<>>, S_a, S_X, S_u >>,
      << S_spJ, S_c, <<>>, S_u >>,
      << S_K, <<>>, S_X, S_u >> }

RewritePool ==
    { Contact(S_J, S_A, S_X, S_u),
      Contact(S_spK, S_sp, S_X, S_u),
      Contact(S_J, S_c, S_X, S_u) }

InitRewrite ==
    /\ fs \in {[csv |-> f, bak |-> Absent, db |-> <<>>] : f \in StoresOf(RewriteRows, MaxRows)}
    /\ pre = fs.csv
    /\ op = "init"
    /\ pc = "idle" /\ mem = NoMem
    /\ orig = Absent /\ crashed = FALSE
    /\ xs = <<>> /\ res = <<>> /\ procs = <<>>
    /\ crawl = NoCrawl /\ log = <<>>
    /\ REGISTRY = StartRegistry

\* lines 137-184: the existence check, the lookup, and the rows read into memory
UpdateBegin ==
    /\ pc = "idle"
    /\ \E contacts \in ListsOf(RewritePool, MaxList) :
          IF ~fs.csv.exists
          THEN /\ op' = "raised"
               /\ UNCHANGED <<REGISTRY, pc, mem, pre, res>>
          ELSE /\ mem' = update_read(fs.csv, contacts) @@ [k |-> 0]
               /\ pre' = fs.csv
               /\ pc' = "read"
               /\ op' = "running"
               /\ res' = <<>>
    /\ UNCHANGED <<REGISTRY, fs, xs, orig, crashed, procs, crawl, log>>

UpdateRenameIfUpdated ==
    /\ pc = "read"
    /\ fs' = IF mem.updated > 0 THEN [csv |-> Absent, bak |-> fs.csv, db |-> fs.db] ELSE fs
    /\ pc' = "renamed"
    /\ UNCHANGED <<REGISTRY, op, pre, xs, mem, orig, crashed, res, procs, crawl, log>>

\* line 188: os.replace(path, backup)
UpdateRename ==
    /\ pc = "read"
    /\ fs' = [csv |-> Absent, bak |-> fs.csv, db |-> fs.db]
    /\ pc' = "renamed"
    /\ UNCHANGED <<REGISTRY, op, pre, xs, mem, orig, crashed, res, procs, crawl, log>>

\* line 189: open(path, "w")
UpdateOpen ==
    /\ pc = "renamed"
    /\ fs' = [fs EXCEPT !.csv = FileOf(<<>>)]
    /\ pc' = "opened"
    /\ UNCHANGED <<REGISTRY, op, pre, xs, mem, orig, crashed, res, procs, crawl, log>>

\* line 191: writer.writeheader()
UpdateWriteHeader ==
    /\ pc = "opened"
    /\ fs' = [fs EXCEPT !.csv = FileOf(<<mem.fieldnames>>)]
    /\ pc' = "writing"
    /\ UNCHANGED <<REGISTRY, op, pre, xs, mem, orig, crashed, res, procs, crawl, log>>

\* lines 192-194: one turn of the loop that writes the rows
UpdateWriteRow ==
    /\ pc = "writing"
    /\ mem.k < Len(mem.rows)
    /\ fs' = [fs EXCEPT !.csv =
                 FileOf(fs.csv.recs \o <<WriteRow(mem.fieldnames, mem.rows[mem.k + 1])>>)]
    /\ mem' = [mem EXCEPT !.k = mem.k + 1]
    /\ UNCHANGED <<REGISTRY, op, pre, xs, pc, orig, crashed, res, procs, crawl, log>>

\* lines 196-197: the file is closed and the count returned
UpdateReturn ==
    /\ pc = "writing"
    /\ mem.k = Len(mem.rows)
    /\ pc' = "idle"
    /\ op' = "returned"
    /\ res' = <<mem.updated>>
    /\ mem' = NoMem
    /\ UNCHANGED <<REGISTRY, fs, pre, xs, orig, crashed, procs, crawl, log>>

\* the process is stopped in the middle of a run (once)
Interrupt ==
    /\ pc /= "idle"
    /\ ~crashed
    /\ crashed' = TRUE
    /\ orig' = pre
    /\ pc' = "idle"
    /\ op' = "interrupted"
    /\ mem' = NoMem
    /\ UNCHANGED <<REGISTRY, fs, pre, xs, res, procs, crawl, log>>

NextRewrite ==
    \/ UpdateBegin \/ UpdateRename \/ UpdateOpen \/ UpdateWriteHeader
    \/ UpdateWriteRow \/ UpdateReturn \/ Interrupt

SpecRewrite == InitRewrite /\ [][NextRewrite]_vars

----------------------------------------------------------------------------
(* Two save_contacts_csv(path, contacts, append=True) calls running at the
   same time on one store file that exists; nothing in the code locks it *)

Runs == {1, 2}

ConcurrentRows ==
    { << S_spJ, S_c, <<>>, S_u >>,
      << S_K, <<>>, S_X, S_u >> }

ConcurrentPool ==
    { Contact(None, S_a, None, S_u),
      Contact(S_J, S_A, S_X, S_u) }

\* a run that has not started, with the contacts it was given
NewRun(contacts) ==
    [pc |-> "start", contacts |-> contacts, mode |-> "", existing_emails |-> {},
     buffer |-> <<>>, count |-> 0]

InitConcurrent ==
    /\ fs \in {[csv |-> f, bak |-> Absent, db |-> <<>>] : f \in StoresOf(ConcurrentRows, MaxRows)}
    /\ procs \in [Runs -> {NewRun(c) : c \in ListsOf(ConcurrentPool, MaxList)}]
    /\ pre = fs.csv
    /\ op = "init"
    /\ pc = "idle" /\ mem = NoMem /\ orig = Absent /\ crashed = FALSE
    /\ xs = <<>> /\ res = <<>>
    /\ crawl = NoCrawl /\ log = <<>>
    /\ REGISTRY = StartRegistry

\* line 44: mode = "a" if append and os.path.exists(path) else "w"
RunMode(p) ==
    /\ procs[p].pc = "start"
    /\ procs' = [procs EXCEPT ![p].mode = OpenMode(fs.csv, TRUE),
                              ![p].pc = IF OpenMode(fs.csv, TRUE) = "a" THEN "read" ELSE "open"]
    /\ UNCHANGED <<REGISTRY, fs, op, pre, xs, pc, mem, orig, crashed, res, crawl, log>>

\* lines 47-56: the emails of the file are loaded (none if it is gone)
RunRead(p) ==
    /\ procs[p].pc = "read"
    /\ procs' = [procs EXCEPT ![p].existing_emails =
                                  IF fs.csv.exists THEN ExistingEmails(fs.csv) ELSE {},
                              ![p].pc = "open"]
    /\ UNCHANGED <<REGISTRY, fs, op, pre, xs, pc, mem, orig, crashed, res, crawl, log>>

\* lines 59-69: the file is opened, and the header (mode "w") and the rows of
\* the contacts not yet seen go to the buffer of the file object
RunOpen(p) ==
    /\ procs[p].pc = "open"
    /\ LET me == procs[p]
           written == write_loop(me.contacts, 1, me.existing_emails, <<>>)
           header == IF me.mode = "w" THEN <<CSV_HEADERS>> ELSE <<>>
       IN  /\ fs' = [fs EXCEPT !.csv = Opened(fs.csv, me.mode)]
           /\ procs' = [procs EXCEPT ![p].buffer = header \o written,
                                     ![p].count = Len(written),
                                     ![p].pc = "close"]
    /\ UNCHANGED <<REGISTRY, op, pre, xs, pc, mem, orig, crashed, res, crawl, log>>

\* the end of the with block: the buffer is flushed; a file opened with "a"
\* gets it at its end, one opened with "w" from its first record on
RunClose(p) ==
    /\ procs[p].pc = "close"
    /\ LET me == procs[p]
           old == fs.csv.recs
           new == IF me.mode = "a" THEN old \o me.buffer
                  ELSE me.buffer \o SubSeq(old, Len(me.buffer) + 1, Len(old))
       IN  fs' = [fs EXCEPT !.csv = FileOf(new)]
    /\ procs' = [procs EXCEPT ![p].pc = "done", ![p].buffer = <<>>]
    /\ UNCHANGED <<REGISTRY, op, pre, xs, pc, mem, orig, crashed, res, crawl, log>>

NextConcurrent ==
    \E p \in Runs : RunMode(p) \/ RunRead(p) \/ RunOpen(p) \/ RunClose(p)

SpecConcurrent == InitConcurrent /\ [][NextConcurrent]_vars

----------------------------------------------------------------------------
(* is_valid_email applied to any candidate put together from pieces of
   addresses, obfuscation markers and whitespace *)

CandidatePieces ==
    { S_a,                                   \* "a@b.cd"
      <<"a">>,
      <<"@","b",".","c","d">>,               \* "@b.cd"
      <<"(","a","t",")">>,                   \* "(at)"
      <<"(","A","T",")">>,                   \* "(AT)"
      <<" ","[","a","t","]"," ">>,           \* " [at] "
      <<"[","D","o","t","]">>,               \* "[Dot]"
      <<" ">> }

RECURSIVE Joined(_, _)
Joined(pieces, i) == IF i > Len(pieces) THEN <<>> ELSE pieces[i] \o Joined(pieces, i + 1)

Candidates == {None} \cup {Joined(ps, 1) : ps \in ListsOf(CandidatePieces, MaxPieces)}

InitValidate ==
    /\ xs \in Candidates
    /\ op = "input"
    /\ res = <<>>
    /\ fs = NoFiles /\ pre = Absent
    /\ pc = "idle" /\ mem = NoMem /\ orig = Absent /\ crashed = FALSE
    /\ procs = <<>>
    /\ crawl = NoCrawl /\ log = <<>>
    /\ REGISTRY = StartRegistry

\* is_valid_email(xs)
ValidateCall ==
    /\ op = "input"
    /\ res' = <<is_valid_email(xs)>>
    /\ op' = "validated"
    /\ UNCHANGED <<REGISTRY, fs, pre, xs, pc, mem, orig, crashed, procs, crawl, log>>

NextValidate == ValidateCall

SpecValidate == InitValidate /\ [][NextValidate]_vars

----------------------------------------------------------------------------
(* The scrape and the scrape-names command of cli.py step by step, with the
   generic parser: the robots check, the delay, the request for the page, the
   parse and the write to the store.  What the network answers is chosen at
   the step that asks. *)

\* an element with nothing around it but a parent, and one with a heading
\* sibling
Level(named, directory_name, headings) ==
    [named |-> named, directory_name |-> directory_name, headings |-> headings]
Anchor(href, text, siblings, ancestors, previous) ==
    [href |-> href, text |-> text, within |-> <<>>, siblings |-> siblings,
     ancestors |-> ancestors, previous |-> previous]
Alone(href, text) == Anchor(href, text, <<>>, <<Level(<<>>, None, <<>>)>>, <<>>)
Beside(href, text, heading) ==
    Anchor(href, text, <<[kind |-> "heading", text |-> heading]>>,
           <<Level(<<>>, None, <<[tag |-> "h3", text |-> heading]>>)>>, <<>>)

AnchorPool ==
    { Alone(<<"m","a","i","l","t","o",":","a","@","b",".","c","d">>, S_J),
      Beside(<<"M","A","I","L","T","O",":"," ","A","@","b",".","C","d","?","s">>, S_a, S_K),
      Alone(<<"m","a","i","l","t","o",":","c","@","b">>, S_K),
      Alone(<<"m","a","i","l","t","o",":","c","@","b",".","c","d">>, <<>>),
      Alone(S_u, S_J) }

Pages == ListsOf(AnchorPool, MaxAnchors)

\* the store the run finds
ScrapeStores == {Absent, FileOf(<<CSV_HEADERS, << S_spJ, S_A, <<>>, S_u >> >>)}

NewCrawl(cmd, skip_robots, use_playwright, available, flag) ==
    [cmd |-> cmd, skip_robots |-> skip_robots, use_playwright |-> use_playwright,
     PLAYWRIGHT_AVAILABLE |-> available,
     append |-> (cmd = "scrape" /\ flag), overwrite |-> (cmd = "scrape-names" /\ flag),
     pc |-> "start", robots |-> [status |-> 0, verdict |-> FALSE], seed |-> 0,
     contacts |-> <<>>, result |-> <<>>, raised |-> "", code |-> -1, count |-> 0]

InitScrape ==
    /\ crawl \in {NewCrawl(cmd, k, w, a, f) :
                    cmd \in {"scrape", "scrape-names"}, k \in BOOLEAN, w \in BOOLEAN,
                    a \in BOOLEAN, f \in BOOLEAN}
    /\ log = <<>>
    /\ REGISTRY = StartRegistry
    /\ pre \in ScrapeStores
    /\ fs = [csv |-> pre, bak |-> Absent, db |-> <<>>]
    /\ op = "init"
    /\ xs = <<>> /\ res = <<>>
    /\ pc = "idle" /\ mem = NoMem /\ orig = Absent /\ crashed = FALSE
    /\ procs = <<>>

\* the robots check only noted, the run goes on whatever it says
ScrapeRobotsNoted ==
    /\ crawl.cmd = "scrape" /\ crawl.pc = "start"
    /\ IF crawl.skip_robots
       THEN /\ crawl' = [crawl EXCEPT !.pc = "delay"]
            /\ log' = log
       ELSE \E o \in RobotsOutcomes :
               /\ log' = Append(log, <<"robots">>)
               /\ crawl' = [crawl EXCEPT !.robots = o, !.pc = "delay"]
    /\ UNCHANGED <<REGISTRY, fs, op, pre, xs, pc, mem, orig, crashed, res, procs>>

\* scrape_directory, line 95: if not skip_robots and not _robots_allows(url)
ScrapeRobots ==
    /\ crawl.cmd = "scrape" /\ crawl.pc = "start"
    /\ IF crawl.skip_robots
       THEN /\ crawl' = [crawl EXCEPT !.pc = "delay"]
            /\ log' = log
       ELSE \E o \in RobotsOutcomes :
               /\ log' = Append(log, <<"robots">>)
               /\ crawl' = IF robots_allows(o)
                           THEN [crawl EXCEPT !.robots = o, !.pc = "delay"]
                           ELSE [crawl EXCEPT !.robots = o, !.pc = "raised",
                                              !.raised = "PermissionError"]
    /\ UNCHANGED <<REGISTRY, fs, op, pre, xs, pc, mem, orig, crashed, res, procs>>

\* line 101: time.sleep(max(0.0, polite_delay_s))
ScrapeDelay ==
    /\ crawl.cmd = "scrape" /\ crawl.pc = "delay"
    /\ log' = Append(log, <<"sleep">>)
    /\ crawl' = [crawl EXCEPT !.pc = "fetch"]
    /\ UNCHANGED <<REGISTRY, fs, op, pre, xs, pc, mem, orig, crashed, res, procs>>

\* line 102: html = _fetch_html(url, use_playwright=use_playwright)
ScrapeFetch ==
    /\ crawl.cmd = "scrape" /\ crawl.pc = "fetch"
    /\ \E status \in FetchOutcomes :
          /\ log' = Append(log, <<"fetch">>)
          /\ crawl' = IF fetch_raises(status, crawl.use_playwright, crawl.PLAYWRIGHT_AVAILABLE)
                      THEN [crawl EXCEPT !.seed = status, !.pc = "raised",
                                         !.raised = "RequestException"]
                      ELSE [crawl EXCEPT !.seed = status, !.pc = "parse"]
    /\ UNCHANGED <<REGISTRY, fs, op, pre, xs, pc, mem, orig, crashed, res, procs>>

\* lines 103-118: the page is parsed, the local pass keeps the first contact
\* of each email, the list is returned
ScrapeParse ==
    /\ crawl.cmd = "scrape" /\ crawl.pc = "parse"
    /\ \E page \in Pages :
          LET contacts == generic_parse_contacts(page, S_u, S_X, None)
          IN  crawl' = [crawl EXCEPT !.contacts = contacts,
                                     !.result = scrape_unique(contacts),
                                     !.pc = "returned"]
    /\ UNCHANGED <<REGISTRY, fs, op, pre, xs, pc, mem, orig, crashed, res, procs, log>>

\* cli.py, lines 102-104: count = _save(contacts, args.out, "csv", args.append)
ScrapeSave ==
    /\ crawl.cmd = "scrape" /\ crawl.pc = "returned"
    /\ LET r == cli_save(fs.csv, crawl.result, crawl.append)
       IN  /\ fs' = [fs EXCEPT !.csv = r.file]
           /\ crawl' = [crawl EXCEPT !.count = r.count, !.code = 0, !.pc = "exit"]
    /\ UNCHANGED <<REGISTRY, op, pre, xs, pc, mem, orig, crashed, res, procs, log>>

\* cli.py, lines 134-136: the robots check of scrape-names
NamesRobots ==
    /\ crawl.cmd = "scrape-names" /\ crawl.pc = "start"
    /\ IF crawl.skip_robots
       THEN /\ crawl' = [crawl EXCEPT !.pc = "fetch"]
            /\ log' = log
       ELSE \E o \in RobotsOutcomes :
               /\ log' = Append(log, <<"robots">>)
               /\ crawl' = IF robots_allows(o)
                           THEN [crawl EXCEPT !.robots = o, !.pc = "fetch"]
                           ELSE [crawl EXCEPT !.robots = o, !.pc = "exit", !.code = 2]
    /\ UNCHANGED <<REGISTRY, fs, op, pre, xs, pc, mem, orig, crashed, res, procs>>

\* cli.py, lines 138-142: the page is requested; an error ends the command
NamesFetch ==
    /\ crawl.cmd = "scrape-names" /\ crawl.pc = "fetch"
    /\ \E status \in FetchOutcomes :
          /\ log' = Append(log, <<"fetch">>)
          /\ crawl' = IF fetch_raises(status, crawl.use_playwright, crawl.PLAYWRIGHT_AVAILABLE)
                      THEN [crawl EXCEPT !.seed = status, !.pc = "exit", !.code = 3]
                      ELSE [crawl EXCEPT !.seed = status, !.pc = "parse"]
    /\ UNCHANGED <<REGISTRY, fs, op, pre, xs, pc, mem, orig, crashed, res, procs>>

\* cli.py, lines 143-146: the parser is called on the page
NamesParse ==
    /\ crawl.cmd = "scrape-names" /\ crawl.pc = "parse"
    /\ \E page \in Pages :
          crawl' = [crawl EXCEPT !.contacts = generic_parse_contacts(page, S_u, S_X, S_u),
                                 !.pc = "parsed"]
    /\ UNCHANGED <<REGISTRY, fs, op, pre, xs, pc, mem, orig, crashed, res, procs, log>>

\* cli.py, lines 148-158: the names are written
NamesSave ==
    /\ crawl.cmd = "scrape-names" /\ crawl.pc = "parsed"
    /\ LET r == save_names_csv(fs.csv, NamesOf(crawl.contacts), S_X, S_u, crawl.overwrite)
       IN  /\ fs' = [fs EXCEPT !.csv = r.file]
           /\ crawl' = [crawl EXCEPT !.count = r.count, !.code = 0, !.pc = "exit"]
    /\ UNCHANGED <<REGISTRY, op, pre, xs, pc, mem, orig, crashed, res, procs, log>>

NextScrape ==
    \/ ScrapeRobots \/ ScrapeDelay \/ ScrapeFetch \/ ScrapeParse \/ ScrapeSave
    \/ NamesRobots \/ NamesFetch \/ NamesParse \/ NamesSave

SpecScrape == InitScrape /\ [][NextScrape]_vars

----------------------------------------------------------------------------
(* A site parser called on a seed page that was fetched: the walk over the
   further pages, step by step.  What a request comes to and what the page
   holds are chosen at the step that asks. *)

WalkPool ==
    { Contact(S_J, S_a, S_X, S_u),
      Contact(S_K, S_A, S_X, S_u),
      Contact(S_K, S_c, S_X, S_u) }

\* what the mailto links of one page give
WalkPages == ListsOf(WalkPool, MaxPerPage)

\* what a request of a walker comes to
WalkStatuses == {0, 200, 500}

\* the page number of the seed URL
StartPages(site) ==
    IF site = "yale" THEN {0, END_PAGE_YALE - 1, END_PAGE_YALE}
    ELSE IF site = "pennstate" THEN {0, END_PAGE_PENNSTATE - 1, END_PAGE_PENNSTATE}
    ELSE {0}

DigitValue(ch) ==
    CASE ch = "0" -> 0 [] ch = "1" -> 1 [] ch = "2" -> 2 [] ch = "3" -> 3 [] ch = "4" -> 4
      [] ch = "5" -> 5 [] ch = "6" -> 6 [] ch = "7" -> 7 [] ch = "8" -> 8 [] OTHER -> 9

\* str(n) for 0 <= n < 100
decimal(n) ==
    LET d(k) == CHOOSE ch \in Digits : DigitValue(ch) = k
    IN  IF n < 10 THEN <<d(n)>> ELSE <<d(n \div 10), d(n % 10)>>

\* does int(text) raise ValueError?  int takes white space around, a sign,
\* and digits with single underscores between them
int_raises(text) ==
    LET t == strip(text)
        u == IF t /= <<>> /\ t[1] \in {"+", "-"} THEN SubSeq(t, 2, Len(t)) ELSE t
    IN  \/ u = <<>>
        \/ \E i \in 1..Len(u) : u[i] \notin Digits \cup {"_"}
        \/ \E i \in 1..Len(u) : u[i] = "_" /\ (i = 1 \/ i = Len(u) \/ u[i - 1] = "_")

RECURSIVE digits_value(_, _, _)
digits_value(u, i, acc) ==
    IF i > Len(u) THEN acc
    ELSE digits_value(u, i + 1, IF u[i] = "_" THEN acc ELSE 10 * acc + DigitValue(u[i]))

\* int(text), for a text it takes
int_of(text) ==
    LET t == strip(text)
        u == IF t /= <<>> /\ t[1] \in {"+", "-"} THEN SubSeq(t, 2, Len(t)) ELSE t
    IN  IF t /= <<>> /\ t[1] = "-" THEN 0 - digits_value(u, 1, 0) ELSE digits_value(u, 1, 0)

\* qs.get("page", ["0"])[0]: parse_qs leaves a parameter without a value out
page_value(page) == IF page = None \/ page = <<>> THEN <<"0">> ELSE page

\* the page parameter of the seed URL: absent, empty, a number, not a number
PageParams(site) ==
    {None, <<>>, <<"x">>} \cup {decimal(n) : n \in StartPages(site) \ {0}}

\* the names of a listing of profiles, as get_text(" ", strip=True) gives them
ListedNames == {S_J, S_K, <<>>}

\* what _extract_profile_email finds on a profile page
ProfileEmails == {None, S_a, S_A, S_c}

\* a contact no other page has: its address is made of the page number
Fresh(n) == Contact(S_J, decimal(n) \o <<"@","b",".","c","d">>, S_X, S_u)

\* what the continuation page n may hold: any page of WalkPages, or, when the
\* listing is endless, a contact that was not there before
PagesAt(endless, n) == IF endless THEN {<<Fresh(n)>>} ELSE WalkPages

\* endless: every continuation page has a new contact;
\* stale: the first page that was fetched and added nothing (0: none);
\* last_new: how many contacts the page fetched last added; failed: the
\* first request that failed (0: none); before_failure: the accumulated
\* contacts when it failed
NewWalk(site, page, endless) ==
    [site |-> site, pc |-> "called", page |-> page, endless |-> endless,
     start_page |-> 0, current |-> 1,
     names |-> <<>>, contacts |-> <<>>, seen |-> {}, result |-> <<>>, raised |-> "",
     stale |-> 0, last_new |-> 0, failed |-> 0, before_failure |-> <<>>]

InitWalk ==
    /\ crawl \in UNION {{NewWalk(site, page, endless) :
                             page \in PageParams(site), endless \in BOOLEAN} : site \in PageWalkers}
                 \cup {NewWalk("harvard", None, FALSE)}
    /\ log = <<>>
    /\ REGISTRY = StartRegistry
    /\ fs = NoFiles /\ pre = Absent
    /\ op = "init"
    /\ xs = <<>> /\ res = <<>>
    /\ pc = "idle" /\ mem = NoMem /\ orig = Absent /\ crashed = FALSE
    /\ procs = <<>>

\* columbia_law 100-105, yale_law 121-127, pennstate_law 91-96: the contacts
\* of the seed page, the emails seen, the first page to ask for
WalkBegin ==
    /\ crawl.site \in PageWalkers /\ crawl.pc = "called"
    /\ \E found \in WalkPages :
          LET contacts == contacts_from_page(crawl.site, found)
              value == page_value(crawl.page)
          IN  crawl' = IF int_raises(value)
                       THEN [crawl EXCEPT !.contacts = contacts,
                                          !.seen = {lower(strip(c.email)) : c \in Range(contacts)},
                                          !.raised = "ValueError",
                                          !.pc = "done"]
                       ELSE [crawl EXCEPT !.contacts = contacts,
                                          !.seen = {lower(strip(c.email)) : c \in Range(contacts)},
                                          !.start_page = int_of(value),
                                          !.current = int_of(value) + 1,
                                          !.pc = "loop"]
    /\ UNCHANGED <<REGISTRY, fs, op, pre, xs, pc, mem, orig, crashed, res, procs, log>>

\* the loop goes on: next_url is made and time.sleep(PAGE_DELAY_S) runs
WalkSleep ==
    /\ crawl.site \in PageWalkers /\ crawl.pc = "loop"
    /\ walk_goes_on(crawl.site, crawl.start_page, crawl.current)
    /\ log' = Append(log, <<"sleep">>)
    /\ crawl' = [crawl EXCEPT !.pc = "fetch"]
    /\ UNCHANGED <<REGISTRY, fs, op, pre, xs, pc, mem, orig, crashed, res, procs>>

\* a failed request of a page walker also ends the whole parser with the error
WalkFetchRaising ==
    /\ crawl.site \in PageWalkers /\ crawl.pc = "fetch"
    /\ \E status \in WalkStatuses :
          /\ log' = Append(log, <<"fetch", crawl.current, status>>)
          /\ IF fetch_raises(status, FALSE, FALSE)
             THEN crawl' = [crawl EXCEPT !.pc = "done", !.raised = "RequestException",
                                         !.failed = crawl.current,
                                         !.before_failure = crawl.contacts]
             ELSE \E found \in PagesAt(crawl.endless, crawl.current) :
                     LET m == merge_loop(contacts_from_page(crawl.site, found), 1,
                                         crawl.contacts, crawl.seen, 0)
                     IN  crawl' = [crawl EXCEPT
                                      !.contacts = m.contacts, !.seen = m.seen,
                                      !.last_new = m.new_added,
                                      !.stale = IF m.new_added = 0 /\ crawl.stale = 0
                                                THEN crawl.current ELSE crawl.stale,
                                      !.current = IF stalls(crawl.site, m.new_added)
                                                  THEN crawl.current ELSE crawl.current + 1,
                                      !.pc = IF stalls(crawl.site, m.new_added)
                                             THEN "return" ELSE "loop"]
    /\ UNCHANGED <<REGISTRY, fs, op, pre, xs, pc, mem, orig, crashed, res, procs>>

\* the page is requested; an exception breaks the loop; else its contacts
\* are merged and the loop goes to the next page
WalkFetch ==
    /\ crawl.site \in PageWalkers /\ crawl.pc = "fetch"
    /\ \E status \in WalkStatuses :
          /\ log' = Append(log, <<"fetch", crawl.current, status>>)
          /\ IF fetch_raises(status, FALSE, FALSE)
             THEN crawl' = [crawl EXCEPT !.pc = "return", !.failed = crawl.current,
                                         !.before_failure = crawl.contacts]
             ELSE \E found \in PagesAt(crawl.endless, crawl.current) :
                     LET m == merge_loop(contacts_from_page(crawl.site, found), 1,
                                         crawl.contacts, crawl.seen, 0)
                     IN  crawl' = [crawl EXCEPT
                                      !.contacts = m.contacts, !.seen = m.seen,
                                      !.last_new = m.new_added,
                                      !.stale = IF m.new_added = 0 /\ crawl.stale = 0
                                                THEN crawl.current ELSE crawl.stale,
                                      !.current = IF stalls(crawl.site, m.new_added)
                                                  THEN crawl.current ELSE crawl.current + 1,
                                      !.pc = IF stalls(crawl.site, m.new_added)
                                             THEN "return" ELSE "loop"]
    /\ UNCHANGED <<REGISTRY, fs, op, pre, xs, pc, mem, orig, crashed, res, procs>>

\* return contacts, after a break or when the loop condition fails
WalkReturn ==
    /\ crawl.site \in PageWalkers
    /\ \/ crawl.pc = "return"
       \/ crawl.pc = "loop" /\ ~walk_goes_on(crawl.site, crawl.start_page, crawl.current)
    /\ crawl' = [crawl EXCEPT !.result = crawl.contacts, !.pc = "done"]
    /\ UNCHANGED <<REGISTRY, fs, op, pre, xs, pc, mem, orig, crashed, res, procs, log>>

\* harvard_law 52-53: the names of the listing
HarvardBegin ==
    /\ crawl.site = "harvard" /\ crawl.pc = "called"
    /\ \E names \in ListsOf(ListedNames, MaxProfiles) :
          crawl' = [crawl EXCEPT !.names = names, !.current = 1, !.pc = "loop"]
    /\ UNCHANGED <<REGISTRY, fs, op, pre, xs, pc, mem, orig, crashed, res, procs, log>>

\* the robots check with its answer ignored
HarvardRobotsIgnored ==
    /\ crawl.site = "harvard" /\ crawl.pc = "loop"
    /\ crawl.current <= Len(crawl.names)
    /\ IF strip(crawl.names[crawl.current]) = <<>>
       THEN /\ crawl' = [crawl EXCEPT !.current = crawl.current + 1]
            /\ log' = log
       ELSE \E o \in RobotsOutcomes :
               /\ log' = Append(log, <<"robots", crawl.current, robots_allows(o)>>)
               /\ crawl' = IF robots_allows(o)
                           THEN [crawl EXCEPT !.pc = "sleep"]
                           ELSE [crawl EXCEPT !.pc = "sleep"]
    /\ UNCHANGED <<REGISTRY, fs, op, pre, xs, pc, mem, orig, crashed, res, procs>>

\* harvard_law 54-61: an empty name is passed over; the robots policy is
\* asked about the profile URL, a no passes the name over
HarvardRobots ==
    /\ crawl.site = "harvard" /\ crawl.pc = "loop"
    /\ crawl.current <= Len(crawl.names)
    /\ IF strip(crawl.names[crawl.current]) = <<>>
       THEN /\ crawl' = [crawl EXCEPT !.current = crawl.current + 1]
            /\ log' = log
       ELSE \E o \in RobotsOutcomes :
               /\ log' = Append(log, <<"robots", crawl.current, robots_allows(o)>>)
               /\ crawl' = IF robots_allows(o)
                           THEN [crawl EXCEPT !.pc = "sleep"]
                           ELSE [crawl EXCEPT !.current = crawl.current + 1]
    /\ UNCHANGED <<REGISTRY, fs, op, pre, xs, pc, mem, orig, crashed, res, procs>>

\* harvard_law 62: time.sleep(PROFILE_DELAY_S)
HarvardSleep ==
    /\ crawl.site = "harvard" /\ crawl.pc = "sleep"
    /\ log' = Append(log, <<"sleep">>)
    /\ crawl' = [crawl EXCEPT !.pc = "fetch"]
    /\ UNCHANGED <<REGISTRY, fs, op, pre, xs, pc, mem, orig, crashed, res, procs>>

\* harvard_law 63-77: the profile is requested; an exception or a profile
\* without a valid address passes the name over; else the contact is added
HarvardFetch ==
    /\ crawl.site = "harvard" /\ crawl.pc = "fetch"
    /\ \E status \in WalkStatuses :
          /\ log' = Append(log, <<"fetch", crawl.current, status>>)
          /\ IF fetch_raises(status, FALSE, FALSE)
             THEN crawl' = [crawl EXCEPT !.current = crawl.current + 1, !.pc = "loop",
                                         !.failed = IF crawl.failed = 0 THEN crawl.current
                                                    ELSE crawl.failed,
                                         !.before_failure = IF crawl.failed = 0
                                                            THEN crawl.contacts
                                                            ELSE crawl.before_failure]
             ELSE \E email \in ProfileEmails :
                     LET name == strip(crawl.names[crawl.current])
                     IN  crawl' = [crawl EXCEPT
                                      !.contacts =
                                          IF ~Truthy(email) THEN crawl.contacts
                                          ELSE Append(crawl.contacts,
                                                      Contact(name, email, S_X, profile_url(S_u, name))),
                                      !.current = crawl.current + 1,
                                      !.pc = "loop"]
    /\ UNCHANGED <<REGISTRY, fs, op, pre, xs, pc, mem, orig, crashed, res, procs>>

\* harvard_law 78: return contacts
HarvardReturn ==
    /\ crawl.site = "harvard" /\ crawl.pc = "loop"
    /\ crawl.current > Len(crawl.names)
    /\ crawl' = [crawl EXCEPT !.result = crawl.contacts, !.pc = "done"]
    /\ UNCHANGED <<REGISTRY, fs, op, pre, xs, pc, mem, orig, crashed, res, procs, log>>

NextWalk ==
    \/ WalkBegin \/ WalkSleep \/ WalkFetch \/ WalkReturn
    \/ HarvardBegin \/ HarvardRobots \/ HarvardSleep \/ HarvardFetch \/ HarvardReturn

SpecWalk == InitWalk /\ [][NextWalk]_vars

\* a parser that was called goes on running: no step of it waits for anything
\* but the answer to its own request, which comes or fails
SpecWalkLive == SpecWalk /\ WF_vars(NextWalk)

----------------------------------------------------------------------------
(* The two backends side by side: every batch of contacts is saved to the
   flat file with append and to the table, both empty at first. *)

BackendPool ==
    { Contact(S_J, S_a, S_X, S_u),
      Contact(S_K, S_A, S_X, S_u),
      Contact(S_K, S_sp, S_X, S_u),
      Contact(S_J, S_c, S_X, S_u) }

InitBackends ==
    /\ fs = NoFiles /\ pre = Absent
    /\ op = "init"
    /\ xs = <<>> /\ res = [csv |-> 0, db |-> 0]
    /\ pc = "idle" /\ mem = NoMem /\ orig = Absent /\ crashed = FALSE
    /\ procs = <<>>
    /\ crawl = NoCrawl /\ log = <<>>
    /\ REGISTRY = StartRegistry

\* save_contacts_csv(path, contacts, append=True) and
\* save_contacts_sqlite(path, contacts) on the same contacts
BackendsSave ==
    \E contacts \in ListsOf(BackendPool, MaxList) :
        LET f == save_contacts_csv(fs.csv, contacts, TRUE)
            t == save_contacts_sqlite(fs.db, contacts)
        IN  /\ fs' = [fs EXCEPT !.csv = f.file, !.db = t.table]
            /\ res' = [csv |-> f.count, db |-> t.count]
            /\ xs' = contacts
            /\ op' = "save"
            /\ pre' = fs.csv
            /\ UNCHANGED <<REGISTRY, pc, mem, orig, crashed, procs, crawl, log>>

\* _save(contacts, out, "csv", True) and _save(contacts, out, "sqlite", True)
BackendsCliSave ==
    \E contacts \in ListsOf(BackendPool, MaxList) :
        LET f == cli_save(fs.csv, contacts, TRUE)
            t == cli_save_sqlite(fs.db, contacts)
        IN  /\ fs' = [fs EXCEPT !.csv = f.file, !.db = t.table]
            /\ res' = [csv |-> f.count, db |-> t.count]
            /\ xs' = contacts
            /\ op' = "cli_save"
            /\ pre' = fs.csv
            /\ UNCHANGED <<REGISTRY, pc, mem, orig, crashed, procs, crawl, log>>

NextBackends == BackendsSave \/ BackendsCliSave

SpecBackends == InitBackends /\ [][NextBackends]_vars

----------------------------------------------------------------------------
(* The registry in use: after the package is imported, parsers are
   registered and looked up in any order. *)

SiteKeys == {"harvard", "duke", "stanford", "x", ""}
UserParsers == {"p", "q"}

InitRegistry ==
    /\ \E m \in SUBSET MissingModules :
          LET calls == start_calls(1, PresentModules \cup m)
          IN  /\ log = calls
              /\ REGISTRY = start_up(<<>>, calls, 1)
    /\ fs = NoFiles /\ pre = Absent
    /\ op = "init"
    /\ xs = NoSite /\ res = generic_parser
    /\ pc = "idle" /\ mem = NoMem /\ orig = Absent /\ crashed = FALSE
    /\ procs = <<>>
    /\ crawl = NoCrawl

\* register(site_key, parser)
Register ==
    /\ Cardinality({i \in 1..Len(log) : log[i][3] \in UserParsers}) < MaxRegisters
    /\ \E site_key \in SiteKeys, parser \in UserParsers :
          /\ REGISTRY' = register(REGISTRY, site_key, parser)
          /\ log' = Append(log, <<"register", site_key, parser>>)
          /\ op' = "register"
          /\ xs' = site_key
          /\ res' = parser
    /\ UNCHANGED <<fs, pre, pc, mem, orig, crashed, procs, crawl>>

\* get(site_key)
Resolve ==
    /\ \E site_key \in SiteKeys \cup {NoSite, "yale", "pennstate"} :
          /\ res' = get(REGISTRY, site_key)
          /\ xs' = site_key
          /\ op' = "get"
    /\ UNCHANGED <<REGISTRY, fs, pre, pc, mem, orig, crashed, procs, crawl, log>>

NextRegistry == Register \/ Resolve

SpecRegistry == InitRegistry /\ [][NextRegistry]_vars

----------------------------------------------------------------------------
(* The name searches on one anchor: the anchor and what is around it are
   drawn at the start, then a parser or a search is applied to it. *)

S_Jane == <<"J","a","n","e"," ","R","o","e">>
S_Contact == <<"C","o","n","t","a","c","t">>
\* thirteen words
S_Long == <<"w"," ","w"," ","w"," ","w"," ","w"," ","w"," ","w"," ","w"," ","w"," ","w"," ","w"," ","w"," ","w">>
NameTexts == {S_Jane, S_Contact, S_a, S_Long}

NameSiblings ==
    {<<>>} \cup {<<[kind |-> k, text |-> t]>> : k \in {"heading", "hinted"}, t \in NameTexts}

NameLevels ==
    {Level(<<>>, None, <<>>)}
    \cup {Level(<<t>>, None, <<>>) : t \in NameTexts}
    \cup {Level(<<>>, t, <<[tag |-> "h3", text |-> t]>>) : t \in NameTexts}
    \cup {Level(<<>>, None, <<[tag |-> g, text |-> t]>>) : g \in {"h3", "strong"}, t \in NameTexts}

NamePrevious == {<<>>} \cup {<<[tag |-> "h3", text |-> t]>> : t \in NameTexts}

NameAnchors ==
    {Anchor(<<"m","a","i","l","t","o",":","a","@","b",".","c","d">>, text, siblings, <<level>>, previous) :
        text \in NameTexts \cup {<<>>}, siblings \in NameSiblings,
        level \in NameLevels, previous \in NamePrevious}

InitNames ==
    /\ xs \in NameAnchors
    /\ op = "init" /\ res = <<>>
    /\ fs = NoFiles /\ pre = Absent
    /\ pc = "idle" /\ mem = NoMem /\ orig = Absent /\ crashed = FALSE
    /\ procs = <<>>
    /\ crawl = NoCrawl /\ log = <<>>
    /\ REGISTRY = StartRegistry

\* generic.parse_contacts on the page whose only anchor it is
ParseGeneric ==
    /\ op = "init"
    /\ op' = "parse_generic"
    /\ res' = generic_parse_contacts(<<xs>>, S_u, S_X, S_u)
    /\ UNCHANGED <<REGISTRY, fs, pre, xs, pc, mem, orig, crashed, procs, crawl, log>>

\* generic._nearest_name and pennstate_law._nearest_name_from_email_anchor
NameGeneric ==
    /\ op = "init"
    /\ op' = "generic"
    /\ res' = nearest_name(xs)
    /\ UNCHANGED <<REGISTRY, fs, pre, xs, pc, mem, orig, crashed, procs, crawl, log>>

\* columbia_law._find_name
NameColumbia ==
    /\ op = "init"
    /\ op' = "columbia"
    /\ res' = find_name(xs)
    /\ UNCHANGED <<REGISTRY, fs, pre, xs, pc, mem, orig, crashed, procs, crawl, log>>

\* yale_law._nearest_name_from_email_anchor
NameYale ==
    /\ op = "init"
    /\ op' = "yale"
    /\ res' = yale_nearest_name(xs)
    /\ UNCHANGED <<REGISTRY, fs, pre, xs, pc, mem, orig, crashed, procs, crawl, log>>

\* duke_law._nearest_name
NameDuke ==
    /\ op = "init"
    /\ op' = "duke"
    /\ res' = duke_nearest_name(xs)
    /\ UNCHANGED <<REGISTRY, fs, pre, xs, pc, mem, orig, crashed, procs, crawl, log>>

NextNames == ParseGeneric \/ NameGeneric \/ NameColumbia \/ NameYale \/ NameDuke

SpecNames == InitNames /\ [][NextNames]_vars

----------------------------------------------------------------------------
(* The parsers of a single page, each on a page of its own kind *)

H_a == <<"m","a","i","l","t","o",":","a","@","b",".","c","d">>
H_A == <<"M","a","i","l","t","o",":"," ","A","%","4","0","b",".","C","d","?","s">>
H_bad == <<"m","a","i","l","t","o",":","c","@","b">>
MailHrefs == {H_a, H_A, H_bad}

\* a profile element of a Duke page
DukeProfiles ==
    {[href |-> <<"/","f","a","c","/","j">>, text |-> text, within |-> <<>>, siblings |-> <<>>,
      ancestors |-> <<Level(<<>>, None, <<>>)>>, previous |-> <<>>, mailto |-> mailto] :
        text \in {S_Jane, S_K, <<>>}, mailto \in MailHrefs \cup {None}}

DukePages ==
    {[kind |-> "duke", profiles |-> ps, mailtos |-> ms] :
        ps \in ListsOf(DukeProfiles, MaxAnchors),
        ms \in ListsOf({Beside(h, S_email, S_Jane) : h \in MailHrefs}, 1)}

NyuPages ==
    {[kind |-> "nyu", rows |-> rows] :
        rows \in ListsOf({[name |-> n, cells |-> k, fourth |-> f, any |-> g] :
                             n \in {S_Jane, <<>>}, k \in {3, 4},
                             f \in {None, H_a}, g \in {None, H_A, H_bad}}, MaxAnchors)}

ProfilePages ==
    {[kind |-> "harvard", primary |-> primary, mailtos |-> ms] :
        primary \in MailHrefs \cup {None}, ms \in ListsOf(MailHrefs, MaxAnchors)}

GenericPages == {[kind |-> "generic", anchors |-> page] : page \in Pages}

InitParsers ==
    /\ xs \in DukePages \cup NyuPages \cup ProfilePages \cup GenericPages
    /\ op = "init" /\ res = <<>>
    /\ fs = NoFiles /\ pre = Absent
    /\ pc = "idle" /\ mem = NoMem /\ orig = Absent /\ crashed = FALSE
    /\ procs = <<>>
    /\ crawl = NoCrawl /\ log = <<>>
    /\ REGISTRY = StartRegistry

\* duke_law.parse_contacts
ParseDuke ==
    /\ op = "init" /\ xs.kind = "duke"
    /\ op' = "duke"
    /\ res' = duke_contacts_from_soup(xs.profiles, xs.mailtos, S_u, S_X)
    /\ UNCHANGED <<REGISTRY, fs, pre, xs, pc, mem, orig, crashed, procs, crawl, log>>

\* nyu_law.parse_contacts
ParseNyu ==
    /\ op = "init" /\ xs.kind = "nyu"
    /\ op' = "nyu"
    /\ res' = nyu_parse_contacts(xs.rows, S_u, S_X)
    /\ UNCHANGED <<REGISTRY, fs, pre, xs, pc, mem, orig, crashed, procs, crawl, log>>

\* harvard_law.parse_contacts, lines 67-77, for one profile that was fetched
ParseProfile ==
    /\ op = "init" /\ xs.kind = "harvard"
    /\ op' = "harvard"
    /\ res' = LET email == extract_profile_email(xs.primary, xs.mailtos)
              IN  IF ~Truthy(email) THEN <<>>
                  ELSE <<Contact(S_J, email, S_X, profile_url(S_u, S_J))>>
    /\ UNCHANGED <<REGISTRY, fs, pre, xs, pc, mem, orig, crashed, procs, crawl, log>>

\* generic.parse_contacts
ParsePage ==
    /\ op = "init" /\ xs.kind = "generic"
    /\ op' = "generic"
    /\ res' = generic_parse_contacts(xs.anchors, S_u, S_X, None)
    /\ UNCHANGED <<REGISTRY, fs, pre, xs, pc, mem, orig, crashed, procs, crawl, log>>

NextParsers == ParseDuke \/ ParseNyu \/ ParseProfile \/ ParsePage

SpecParsers == InitParsers /\ [][NextParsers]_vars

----------------------------------------------------------------------------
(* One save_contacts_csv run with append and one update_names_in_csv run on
   the same path, as two processes whose steps interleave.  An open file is
   a file and not a path: procs[1].handle says under which path the file the
   append run has open is found now, after a rename by the other run. *)

InterleaveRows ==
    { << S_spJ, S_c, <<>>, S_u >>,
      << S_K, S_a, S_X, S_u >> }

AppendPool ==
    { Contact(S_J, S_A, S_X, S_u),
      Contact(S_K, S_sp, S_X, S_u),
      Contact(S_J, <<"d","@","b",".","c","d">>, S_X, S_u) }

ReconcilePool ==
    { Contact(S_J, S_c, S_X, S_u),
      Contact(S_K, S_a, S_X, S_u) }

InitInterleave ==
    /\ fs \in {[csv |-> f, bak |-> Absent, db |-> <<>>] : f \in StoresOf(InterleaveRows, MaxRows)}
    /\ procs \in {<<NewRun(c) @@ [handle |-> "none", written |-> <<>>]>> :
                      c \in ListsOf(AppendPool, MaxList)}
    /\ xs \in ListsOf(ReconcilePool, MaxList)
    /\ pre = fs.csv
    /\ op = "init"
    /\ pc = "start" /\ mem = NoMem /\ orig = Absent /\ crashed = FALSE
    /\ res = <<>>
    /\ crawl = NoCrawl /\ log = <<>>
    /\ REGISTRY = StartRegistry

\* save_contacts_csv line 44: the mode
AppendMode ==
    /\ procs[1].pc = "start"
    /\ procs' = [procs EXCEPT ![1].mode = OpenMode(fs.csv, TRUE),
                              ![1].pc = IF OpenMode(fs.csv, TRUE) = "a" THEN "read" ELSE "open"]
    /\ UNCHANGED <<REGISTRY, fs, op, pre, xs, pc, mem, orig, crashed, res, crawl, log>>

\* lines 47-56: the emails of the file are loaded (none if it is gone)
AppendRead ==
    /\ procs[1].pc = "read"
    /\ procs' = [procs EXCEPT ![1].existing_emails =
                                  IF fs.csv.exists THEN ExistingEmails(fs.csv) ELSE {},
                              ![1].pc = "open"]
    /\ UNCHANGED <<REGISTRY, fs, op, pre, xs, pc, mem, orig, crashed, res, crawl, log>>

\* lines 59-69: the file at the path is opened (made if it is not there) and
\* the header (mode "w") and the new rows go to the buffer of the file object
AppendOpen ==
    /\ procs[1].pc = "open"
    /\ LET me == procs[1]
           written == write_loop(me.contacts, 1, me.existing_emails, <<>>)
           header == IF me.mode = "w" THEN <<CSV_HEADERS>> ELSE <<>>
       IN  /\ fs' = [fs EXCEPT !.csv = Opened(fs.csv, me.mode)]
           /\ procs' = [procs EXCEPT ![1].buffer = header \o written,
                                     ![1].count = Len(written),
                                     ![1].written = written,
                                     ![1].handle = "csv",
                                     ![1].pc = "close"]
    /\ UNCHANGED <<REGISTRY, op, pre, xs, pc, mem, orig, crashed, res, crawl, log>>

\* the end of the with block: the buffer goes to the file that was opened,
\* wherever it is now
AppendClose ==
    /\ procs[1].pc = "close"
    /\ LET me == procs[1]
           old == fs[me.handle].recs
           new == IF me.mode = "a" THEN old \o me.buffer
                  ELSE me.buffer \o SubSeq(old, Len(me.buffer) + 1, Len(old))
       IN  fs' = [fs EXCEPT ![me.handle] = FileOf(new)]
    /\ procs' = [procs EXCEPT ![1].pc = "done", ![1].buffer = <<>>]
    /\ UNCHANGED <<REGISTRY, op, pre, xs, pc, mem, orig, crashed, res, crawl, log>>

\* update_names_in_csv lines 139-141: the path must exist
ReconcileCheck ==
    /\ pc = "start"
    /\ pc' = IF fs.csv.exists THEN "checked" ELSE "done"
    /\ op' = IF fs.csv.exists THEN "running" ELSE "raised"
    /\ UNCHANGED <<REGISTRY, fs, pre, xs, mem, orig, crashed, res, procs, crawl, log>>

\* lines 143-184: the lookup is built and the rows are read into memory
ReconcileRead ==
    /\ pc = "checked"
    /\ mem' = update_read(fs.csv, xs) @@ [k |-> 0]
    /\ pc' = "read"
    /\ UNCHANGED <<REGISTRY, fs, op, pre, xs, orig, crashed, res, procs, crawl, log>>

\* line 188: os.replace(path, backup); a file that is open goes with its name
ReconcileRename ==
    /\ pc = "read"
    /\ fs' = [csv |-> Absent, bak |-> fs.csv, db |-> fs.db]
    /\ procs' = [procs EXCEPT ![1].handle = IF procs[1].pc = "close" THEN "bak" ELSE @]
    /\ pc' = "renamed"
    /\ UNCHANGED <<REGISTRY, op, pre, xs, mem, orig, crashed, res, crawl, log>>

\* line 189: open(path, "w"): a file at the path is emptied, else one is made
ReconcileOpen ==
    /\ pc = "renamed"
    /\ fs' = [fs EXCEPT !.csv = FileOf(<<>>)]
    /\ pc' = "opened"
    /\ UNCHANGED <<REGISTRY, op, pre, xs, mem, orig, crashed, res, procs, crawl, log>>

\* lines 190-197: the header and the rows are written from the start of the
\* file when it is closed, and the count is returned
ReconcileClose ==
    /\ pc = "opened"
    /\ LET buffer == update_records(mem)
           old == fs.csv.recs
       IN  fs' = [fs EXCEPT !.csv = FileOf(buffer \o SubSeq(old, Len(buffer) + 1, Len(old)))]
    /\ res' = <<mem.updated>>
    /\ op' = "returned"
    /\ pc' = "done"
    /\ UNCHANGED <<REGISTRY, pre, xs, mem, orig, crashed, procs, crawl, log>>

NextInterleave ==
    \/ AppendMode \/ AppendRead \/ AppendOpen \/ AppendClose
    \/ ReconcileCheck \/ ReconcileRead \/ ReconcileRename \/ ReconcileOpen \/ ReconcileClose

SpecInterleave == InitInterleave /\ [][NextInterleave]_vars

----------------------------------------------------------------------------
(* Claims *)

\* a normalized email: trimmed, then lower-cased
Normalized(email) == lower(strip(email))

RECURSIVE SubList(_, _, _)
\* the elements of list at the positions of keep, from position i on, in order
SubList(list, keep, i) ==
    IF i > Len(list) THEN <<>>
    ELSE (IF i \in keep THEN <<list[i]>> ELSE <<>>) \o SubList(list, keep, i + 1)

\* the positions of list that hold the first contact of their normalized email
FirstOfEmail(list) ==
    {i \in 1..Len(list) :
        \A j \in 1..(i - 1) : Normalized(list[j].email) /= Normalized(list[i].email)}

\* C10: dedupe_contacts(xs) is the sub-sequence of xs that keeps, in input
\* order, exactly the first contact of each normalized email, and applying
\* dedupe_contacts to that result gives the same result again.
C10_DedupeIdempotentStable ==
    /\ op \in {"dedupe", "dedupe_again"} => res[1] = SubList(xs, FirstOfEmail(xs), 1)
    /\ op = "dedupe_again" => res[2] = res[1]

\* C10 witness: a list of three contacts whose third repeats the email of the
\* first in another spelling has been deduplicated twice, and lost the third.
C10_Witness ==
    /\ op = "dedupe_again"
    /\ Len(xs) = 3
    /\ xs[3].email /= xs[1].email
    /\ Normalized(xs[3].email) = Normalized(xs[1].email)
    /\ Normalized(xs[2].email) /= Normalized(xs[1].email)
    /\ res[1] = <<xs[1], xs[2]>>

----------------------------------------------------------------------------
(* The store as the claims read it: the data rows follow the header, and a
   row's cells are name, email, affiliation, source_url *)

DataRows(file) == IF file.recs = <<>> THEN <<>> ELSE Tail(file.recs)
RowName(row) == row[1]
RowEmail(row) == row[2]

\* the normalized emails of the rows of a store file
StoreEmails(file) == {Normalized(RowEmail(DataRows(file)[i])) : i \in 1..Len(DataRows(file))}

\* the row a contact is stored as
RowOf(c) == <<Cell(c.name), c.email, Cell(c.affiliation), Cell(c.source_url)>>

PairwiseDistinct(list) ==
    \A i, j \in 1..Len(list) :
        i < j => Normalized(list[i].email) /= Normalized(list[j].email)

NoneInStore(list, file) ==
    \A i \in 1..Len(list) : Normalized(list[i].email) \notin StoreEmails(file)

\* no two rows of the file have the same normalized non-empty email
DuplicateFree(file) ==
    \A i, j \in 1..Len(DataRows(file)) :
        (i < j /\ Normalized(RowEmail(DataRows(file)[i])) /= <<>>)
            => Normalized(RowEmail(DataRows(file)[i])) /= Normalized(RowEmail(DataRows(file)[j]))

\* the store before the k-th operation
StoreBefore(k) == IF k = 1 THEN pre ELSE res[k - 1].files.csv

\* C1: starting from an absent or duplicate-free store, after save_contacts_csv
\* calls with append=True and any contact lists, no two rows of the store have
\* the same normalized non-empty email.
C1_NoDuplicateEmail ==
    (DuplicateFree(pre) /\ op \in {"append", "append_again"}) =>
        \A k \in 1..Len(res) : DuplicateFree(res[k].files.csv)

\* C1 witness: a list that gives one email in two spellings was appended to a
\* duplicate-free store that had a row, and only the first spelling was written.
C1_Witness ==
    /\ op = "append"
    /\ DuplicateFree(pre) /\ Len(DataRows(pre)) >= 1
    /\ Len(xs) = 2
    /\ xs[1].email /= xs[2].email
    /\ Normalized(xs[1].email) = Normalized(xs[2].email)
    /\ Normalized(xs[1].email) /= <<>>
    /\ res[1].count = 1
    /\ DataRows(res[1].files.csv) = Append(DataRows(pre), RowOf(xs[1]))

\* every operation so far left in the store every normalized email it found
KeepsEmails ==
    \A k \in 1..Len(res) : StoreEmails(StoreBefore(k)) \subseteq StoreEmails(res[k].files.csv)

\* C3 as stated: over the persistence step with or without the append option,
\* update_names_in_csv and the name-collection write with or without
\* overwrite, the set of normalized emails in the store never loses a member.
C3_AsStated == KeepsEmails

\* C3 amended: over the persistence step with the append option,
\* save_contacts_csv with append=True, update_names_in_csv and the
\* name-collection write without overwrite, the set of normalized emails in
\* the store never loses a member.
C3_NeverDeleted ==
    op \in {"append", "append_again", "save_append", "names",
            "reconcile", "reconcile_again"} => KeepsEmails

\* C3 witness: a run with the append option wrote a row to a store that held
\* two emails, and both are still there.
C3_Witness ==
    /\ op = "save_append"
    /\ Cardinality(StoreEmails(pre)) = 2
    /\ res[1].count >= 1
    /\ StoreEmails(pre) \subseteq StoreEmails(fs.csv)
    /\ StoreEmails(fs.csv) /= StoreEmails(pre)

\* what the first of two appends of list to the store `pre` and the second do
AppendsOnceThenNothing ==
    /\ op \in {"append", "append_again"} =>
          /\ res[1].count = Len(xs)
          /\ DataRows(res[1].files.csv) = DataRows(pre) \o [i \in 1..Len(xs) |-> RowOf(xs[i])]
    /\ op = "append_again" =>
          /\ res[2].count = 0
          /\ res[2].files.csv = res[1].files.csv

\* C2 as stated: for any contact list with pairwise-distinct normalized emails
\* none of which is in the store, the first append writes every row and returns
\* the list length, the second writes no row and returns 0.
C2_AsStated ==
    (PairwiseDistinct(xs) /\ NoneInStore(xs, pre)) => AppendsOnceThenNothing

\* C2 amended: the same for any contact list with pairwise-distinct, non-empty
\* normalized emails none of which is in the store.
C2_AppendTwice ==
    (/\ PairwiseDistinct(xs)
     /\ NoneInStore(xs, pre)
     /\ \A i \in 1..Len(xs) : Normalized(xs[i].email) /= <<>>) => AppendsOnceThenNothing

\* C2 witness: two contacts with distinct non-empty emails were appended twice
\* to a store that had a row: two rows written, then none.
C2_Witness ==
    /\ op = "append_again"
    /\ Len(xs) = 2
    /\ PairwiseDistinct(xs) /\ NoneInStore(xs, pre)
    /\ \A i \in 1..Len(xs) : Normalized(xs[i].email) /= <<>>
    /\ Len(DataRows(pre)) >= 1
    /\ res[1].count = 2 /\ res[2].count = 0

\* the emails of the inbound contacts, normalized
InboundEmails(list) == {Normalized(list[i].email) : i \in 1..Len(list)}

\* a reconciliation that took the store from before to after changed only names
OnlyNamesChanged(before, after, list) ==
    /\ after.exists = before.exists
    /\ Len(after.recs) = Len(before.recs)
    /\ \A i \in 1..Len(DataRows(before)) :
          LET b == DataRows(before)[i]
              a == DataRows(after)[i]
          IN  /\ a[2] = b[2] /\ a[3] = b[3] /\ a[4] = b[4]
              /\ Normalized(RowEmail(b)) \notin InboundEmails(list) => a[1] = b[1]

\* C4: update_names_in_csv leaves the store with the same number of rows in
\* the same order, every row with the same email, affiliation and source_url
\* as before, and a row whose email matches no inbound contact keeps its name.
C4_ReconcileFrame ==
    /\ op \in {"reconcile", "reconcile_again"} =>
          OnlyNamesChanged(pre, res[1].files.csv, xs)
    /\ op = "reconcile_again" =>
          OnlyNamesChanged(res[1].files.csv, res[2].files.csv, xs)

\* C4 witness: a reconciliation updated one row of a two-row store whose
\* other row matches no inbound contact.
C4_Witness ==
    /\ op = "reconcile"
    /\ Len(DataRows(pre)) = 2
    /\ res[1].count = 1
    /\ \E i \in 1..2 : Normalized(RowEmail(DataRows(pre)[i])) \notin InboundEmails(xs)

\* C5: a second update_names_in_csv run with the same inbound contacts
\* returns 0 and leaves every row as the first run produced it.
C5_ReconcileIdempotent ==
    op = "reconcile_again" =>
        /\ res[2].count = 0
        /\ res[2].files.csv = res[1].files.csv

\* C5 witness: the first run changed a name (to one given with surrounding
\* whitespace), the second run changed nothing.
C5_Witness ==
    /\ op = "reconcile_again"
    /\ res[1].count >= 1
    /\ res[2].count = 0
    /\ \E i \in 1..Len(xs) : Truthy(xs[i].name) /\ strip(xs[i].name) /= xs[i].name
                             /\ \E j \in 1..Len(DataRows(res[1].files.csv)) :
                                   /\ RowName(DataRows(res[1].files.csv)[j]) = strip(xs[i].name)
                                   /\ RowName(DataRows(pre)[j]) /= strip(xs[i].name)

\* the positions of list that supply a name for the normalized email key
Suppliers(list, key) ==
    {i \in 1..Len(list) : Normalized(list[i].email) = key /\ Truthy(list[i].name)}

\* the first name supplied for key
FirstName(list, key) ==
    list[CHOOSE i \in Suppliers(list, key) : \A j \in Suppliers(list, key) : i <= j].name

\* the number of rows whose name differs between two stores of equal length
NamesChanged(before, after) ==
    Cardinality({i \in 1..Len(DataRows(before)) :
                    RowName(DataRows(after)[i]) /= RowName(DataRows(before)[i])})

\* the reference definition as the claim words it: names are taken and
\* compared as they are given
ReferenceAsStated(before, after, count, list) ==
    /\ Len(after.recs) = Len(before.recs)
    /\ \A i \in 1..Len(DataRows(before)) :
          LET key == Normalized(RowEmail(DataRows(before)[i]))
          IN  RowName(DataRows(after)[i]) =
                 IF Suppliers(list, key) /= {}
                 THEN FirstName(list, key)
                 ELSE RowName(DataRows(before)[i])
    /\ count = NamesChanged(before, after)

\* the reference definition with names trimmed: the lookup maps a non-empty
\* normalized email to the trimmed first non-empty name; a row gets it if and
\* only if its email is a key and its trimmed current name differs
ReferenceTrimmed(before, after, count, list) ==
    /\ Len(after.recs) = Len(before.recs)
    /\ \A i \in 1..Len(DataRows(before)) :
          LET key == Normalized(RowEmail(DataRows(before)[i]))
              current == RowName(DataRows(before)[i])
          IN  RowName(DataRows(after)[i]) =
                 IF /\ key /= <<>>
                    /\ Suppliers(list, key) /= {}
                    /\ strip(current) /= strip(FirstName(list, key))
                 THEN strip(FirstName(list, key))
                 ELSE current
    /\ count = NamesChanged(before, after)

\* C6 as stated: the lookup maps each normalized inbound email to the first
\* non-empty name supplied for it; a row gets that name if and only if its
\* normalized email is a lookup key and its current name differs; the returned
\* number is the number of rows whose name changed.
C6_AsStated ==
    (op \in {"reconcile", "reconcile_again"} /\ ~res[1].raised) =>
        ReferenceAsStated(pre, res[1].files.csv, res[1].count, xs)

\* C6 amended: the lookup maps each non-empty normalized inbound email to the
\* trimmed form of the first non-empty name supplied for it; a row gets that
\* name if and only if its normalized email is a lookup key and its trimmed
\* current name differs from it; the returned number is the number of rows
\* whose name changed.
C6_ReconcileReference ==
    /\ (op \in {"reconcile", "reconcile_again"} /\ ~res[1].raised) =>
          ReferenceTrimmed(pre, res[1].files.csv, res[1].count, xs)
    /\ (op = "reconcile_again" /\ ~res[2].raised) =>
          ReferenceTrimmed(res[1].files.csv, res[2].files.csv, res[2].count, xs)

\* C6 witness: two inbound contacts supplied different names for one email,
\* spelled differently from the row's email, and the row took the first.
C6_Witness ==
    /\ op = "reconcile"
    /\ Len(xs) = 2
    /\ Normalized(xs[1].email) = Normalized(xs[2].email)
    /\ Truthy(xs[1].name) /\ Truthy(xs[2].name)
    /\ strip(xs[1].name) /= strip(xs[2].name)
    /\ res[1].count >= 1
    /\ \E i \in 1..Len(DataRows(pre)) :
          /\ RowEmail(DataRows(pre)[i]) /= xs[1].email
          /\ RowName(DataRows(pre)[i]) /= strip(xs[1].name)
          /\ RowName(DataRows(res[1].files.csv)[i]) = strip(xs[1].name)

\* C7: after an update_names_in_csv run was stopped at any step, and after
\* any number of later runs, every record of the store as it was before the
\* stopped run (told by its email) is still in the store file or in its .bak
\* sibling.
C7_NoDataLost ==
    crashed => StoreEmails(orig) \subseteq (StoreEmails(fs.csv) \cup StoreEmails(fs.bak))

\* C8: in every update_names_in_csv run, one that changes no row included,
\* the previous store file is the .bak sibling before the new file gets its
\* first byte, and when the run returns the .bak file holds exactly the store
\* as it was when the run began.
C8_BackupBeforeWrite ==
    /\ pc \in {"renamed", "opened", "writing"} => (fs.bak = pre /\ pre.exists)
    /\ pc = "renamed" => ~fs.csv.exists
    /\ op = "returned" => (fs.bak = pre /\ pre.exists)

\* C8 witness: a run that changed no row of a two-row store has returned, and
\* the .bak file is the store it found.
C8_Witness ==
    /\ op = "returned"
    /\ res = <<0>>
    /\ Len(DataRows(pre)) = 2
    /\ fs.bak = pre
    /\ fs.csv = pre

\* C9: when two save_contacts_csv runs on one store file, whose contact
\* lists share an email, have both ended, the store has at most one row for
\* each normalized email, under every interleaving of their steps.
C9_ConcurrentAppends ==
    (DuplicateFree(pre) /\ \A p \in Runs : procs[p].pc = "done") => DuplicateFree(fs.csv)

\* the rows an operation wrote: all rows of the file when the run had no
\* append option, else those after the rows it found
RowsAdded(k) ==
    LET before == DataRows(StoreBefore(k))
        after == DataRows(res[k].files.csv)
    IN  IF op = "save" THEN after ELSE SubSeq(after, Len(before) + 1, Len(after))

\* C12: in the persistence step (validate, dedupe, append) every row written
\* has an email is_valid_email accepts; a contact whose email is empty or
\* rejected is dropped without an error, is not written, and is not counted
\* in the returned number.
C12_OnlyValidPersisted ==
    op \in {"save", "save_append"} =>
        /\ ~res[1].raised
        /\ res[1].count = Len(RowsAdded(1))
        /\ \A i \in 1..Len(RowsAdded(1)) :
              /\ is_valid_email(RowEmail(RowsAdded(1)[i]))
              /\ \E j \in 1..Len(xs) : RowOf(xs[j]) = RowsAdded(1)[i]
        /\ \A j \in 1..Len(xs) :
              ~is_valid_email(xs[j].email) =>
                  \A i \in 1..Len(RowsAdded(1)) : RowsAdded(1)[i] /= RowOf(xs[j])

\* C12 witness: a run with the append option was given a contact with an
\* empty email and one with a valid email; one row was written and counted.
C12_Witness ==
    /\ op = "save_append"
    /\ Len(xs) = 2
    /\ xs[1].email = <<>>
    /\ res[1].count = 1
    /\ RowsAdded(1) = <<RowOf(xs[2])>>

\* the obfuscation markers, bracketed or parenthesised, as the claim reads them
Markers ==
    { <<"[","a","t","]">>, <<"(","a","t",")">>,
      <<"[","d","o","t","]">>, <<"(","d","o","t",")">> }

HasMarker(s) == \E m \in Markers : Contains(lower(s), m)

\* C13: is_valid_email returns false for any string that contains an
\* obfuscation marker in any letter case, even when the rest of the string is
\* a well-formed address, and for the empty and the whitespace-only string.
C13_MarkersRejected ==
    (op = "validated" /\ xs /= None /\ (HasMarker(xs) \/ strip(xs) = <<>>)) =>
        res = <<FALSE>>

\* C13 witness: a well-formed address with the marker "(AT)" before it was
\* rejected.
C13_Witness ==
    /\ op = "validated"
    /\ Len(xs) > 4
    /\ SubSeq(xs, 1, 4) = <<"(","A","T",")">>
    /\ MatchesEmailRegex(SubSeq(xs, 5, Len(xs)))
    /\ res = <<FALSE>>

\* the events of the log that are of one kind
Logged(kind) == {i \in 1..Len(log) : log[i] = <<kind>>}

\* C11: the list scrape_directory returns has no two contacts with the same
\* normalized email, whatever the parser returned: it is the parser's list
\* cut down to the first contact of each email, so of several anchors for one
\* address the first gives the name.
C11_RunUniqueByEmail ==
    (crawl.pc \in {"returned", "exit"} /\ crawl.cmd = "scrape") =>
        /\ \A i, j \in 1..Len(crawl.result) :
              i < j => Normalized(crawl.result[i].email) /= Normalized(crawl.result[j].email)
        /\ crawl.result = SubList(crawl.contacts, FirstOfEmail(crawl.contacts), 1)

\* C11 witness: the page had two anchors for one address, spelled
\* differently and with different names; one contact was returned, with the
\* name of the first.
C11_Witness ==
    /\ crawl.pc = "returned"
    /\ Len(crawl.contacts) = 2
    /\ crawl.contacts[1].email /= crawl.contacts[2].email
    /\ crawl.contacts[1].name /= crawl.contacts[2].name
    /\ Normalized(crawl.contacts[1].email) = Normalized(crawl.contacts[2].email)
    /\ crawl.result = <<crawl.contacts[1]>>

\* the robots check was made and came back with "allowed"
RobotsAnswered == Logged("robots") /= {}
RobotsSaidYes == ~(crawl.raised = "PermissionError" \/ crawl.code = 2)

\* C14: when the retrieval of the robots policy fails, _robots_allows does
\* not raise and allows the URL; when the policy is retrieved, the answer is
\* the policy's verdict for the URL and the user agent.
C14_RobotsFailSafe ==
    RobotsAnswered =>
        /\ crawl.robots.status /= 200 => RobotsSaidYes
        /\ crawl.robots.status = 200 => (RobotsSaidYes <=> crawl.robots.verdict)

\* C15: when _robots_allows says no for the seed URL and skip_robots is not
\* set, scrape_directory raises PermissionError before any delay, request
\* for the page or parse, returns no contact and the store stays as it was;
\* a run that requested the page was allowed to or had skip_robots set.
C15_DisallowedAborts ==
    crawl.cmd = "scrape" =>
        /\ (RobotsAnswered /\ ~robots_allows(crawl.robots)) =>
              /\ crawl.raised = "PermissionError"
              /\ log = << <<"robots">> >>
              /\ crawl.contacts = <<>> /\ crawl.result = <<>>
              /\ crawl.pc = "raised"
              /\ fs.csv = pre
        /\ Logged("fetch") /= {} =>
              (crawl.skip_robots \/ (RobotsAnswered /\ robots_allows(crawl.robots)))

\* C15 witness: the retrieved policy disallows the URL, the run raised
\* PermissionError and the store that was there is as it was.
C15_Witness ==
    /\ crawl.cmd = "scrape" /\ crawl.pc = "raised"
    /\ crawl.raised = "PermissionError"
    /\ crawl.robots = [status |-> 200, verdict |-> FALSE]
    /\ ~crawl.skip_robots
    /\ pre.exists /\ fs.csv = pre
    /\ log = << <<"robots">> >>

\* C16: every request for a page has its own delay directly before it.
C16_DelayBeforeEachFetch ==
    \A i \in Logged("fetch") : i > 1 /\ log[i - 1] = <<"sleep">>

\* C17: when the request for the seed page fails (no response, or a status
\* that is not 2xx), the error leaves scrape_directory: no contact is
\* returned, no further request is made and nothing is written to the store.
C17_SeedFailurePropagates ==
    (/\ crawl.cmd = "scrape"
     /\ Logged("fetch") /= {}
     /\ (crawl.seed < 200 \/ crawl.seed >= 300)) =>
        /\ crawl.raised = "RequestException"
        /\ crawl.pc = "raised"
        /\ crawl.result = <<>>
        /\ log[Len(log)] = <<"fetch">>
        /\ fs.csv = pre

\* the positions of the log that are requests for a page, and the last one
Fetches == {i \in 1..Len(log) : log[i][1] = "fetch"}
LastFetch == CHOOSE i \in Fetches : \A j \in Fetches : j <= i
FetchFailed(i) == fetch_raises(log[i][3], FALSE, FALSE)

\* C18 as stated: a failed request for a continuation page or for a profile
\* does not propagate; the walker makes no request after the failed one and
\* returns exactly the contacts accumulated before the failure.
C18_AsStated ==
    /\ crawl.raised /= "RequestException"
    /\ \A i \in Fetches : FetchFailed(i) =>
          /\ \A j \in Fetches : j <= i
          /\ crawl.pc = "done" => crawl.result = crawl.before_failure

\* C18 amended: a failed request never propagates.  A pagination walker
\* (Columbia, Yale, Penn State) makes no request after the failed one and
\* returns exactly the contacts accumulated before the failure.  The profile
\* walker (Harvard) passes the profile over: it gives no contact, is not asked
\* for again, the walk goes on with the next name, and the contacts
\* accumulated before the failure stay at the head of the result.
C18_FailureNeverPropagates ==
    /\ crawl.raised /= "RequestException"
    /\ (crawl.pc = "done" /\ crawl.raised = "") => crawl.result = crawl.contacts
    /\ crawl.site \in PageWalkers =>
          \A i \in Fetches : FetchFailed(i) =>
              /\ \A j \in Fetches : j <= i
              /\ crawl.pc \in {"return", "done"}
              /\ crawl.contacts = crawl.before_failure
    /\ crawl.site = "harvard" =>
          /\ \A i, j \in Fetches : i < j => log[i][2] < log[j][2]
          /\ Len(crawl.contacts) <= Cardinality({i \in Fetches : ~FetchFailed(i)})
          /\ crawl.failed /= 0 =>
                /\ Len(crawl.contacts) >= Len(crawl.before_failure)
                /\ SubSeq(crawl.contacts, 1, Len(crawl.before_failure)) = crawl.before_failure

\* C18 witness: the request for the first profile failed, the walk went on,
\* the request for the second profile gave a contact, and the walk returned
\* that contact without raising.
C18_Witness ==
    /\ crawl.site = "harvard" /\ crawl.pc = "done" /\ crawl.raised = ""
    /\ crawl.failed = 1 /\ crawl.before_failure = <<>>
    /\ Cardinality(Fetches) = 2
    /\ \E i, j \in Fetches : i < j /\ FetchFailed(i) /\ ~FetchFailed(j)
    /\ Len(crawl.result) = 1

\* C19: the Columbia walk stops at the first continuation page that adds no
\* contact not seen before: that page is the last one requested.
C19_StallStops ==
    (crawl.site = "columbia" /\ crawl.stale /= 0) =>
        /\ log[LastFetch][2] = crawl.stale
        /\ \A i \in Fetches : log[i][2] <= crawl.stale
        /\ crawl.pc \in {"return", "done"}

\* C19 witness: pages 1 and 2 each added a contact, page 3 added none, and
\* the walk is done with three requests, none for page 4.
C19_Witness ==
    /\ crawl.site = "columbia" /\ crawl.pc = "done"
    /\ crawl.start_page = 0 /\ crawl.stale = 3 /\ crawl.failed = 0
    /\ Cardinality(Fetches) = 3
    /\ Len(crawl.result) = 2
    /\ \A i \in Fetches : log[i][2] /= 4

\* the fixed ceiling of a bounded walk
Ceiling == IF crawl.site = "yale" THEN END_PAGE_YALE ELSE END_PAGE_PENNSTATE

\* C20: in the Yale and the Penn State walk a page that adds no contact does
\* not stop the walk: while requests succeed, every page from start+1 to the
\* ceiling (28, 20) is requested, in order, and none above the ceiling, also
\* when the last page added contacts.
C20_BoundedWalk ==
    crawl.site \in {"yale", "pennstate"} =>
        /\ \A i \in Fetches :
              /\ log[i][2] <= Ceiling
              /\ log[i][2] = crawl.start_page + Cardinality({j \in Fetches : j <= i})
        /\ crawl.pc = "return" => crawl.failed /= 0
        /\ (crawl.pc = "done" /\ crawl.failed = 0 /\ crawl.raised = "") =>
              Cardinality(Fetches) = (IF crawl.start_page < Ceiling
                                      THEN Ceiling - crawl.start_page ELSE 0)

\* C20 witness: a Yale walk from page 0 met a page that added nothing before
\* the ceiling, went on, and is done after 28 requests, the last of which
\* added a contact.
C20_Witness ==
    /\ crawl.site = "yale" /\ crawl.pc = "done"
    /\ crawl.start_page = 0 /\ crawl.failed = 0
    /\ crawl.stale > 0 /\ crawl.stale < END_PAGE_YALE
    /\ Cardinality(Fetches) = END_PAGE_YALE
    /\ log[LastFetch][2] = END_PAGE_YALE
    /\ crawl.last_new >= 1

\* the positions of the log where the robots policy was asked
RobotsChecks == {i \in 1..Len(log) : log[i][1] = "robots"}

\* C21: the profile walk handles the listed names in listing order; each
\* request for a profile comes right after the delay, which comes right after
\* a robots check of that profile that said yes; a profile the check said no
\* to is never requested; there are at most as many requests as names.
C21_ProfileOrder ==
    crawl.site = "harvard" =>
        /\ \A i, j \in RobotsChecks : i < j => log[i][2] < log[j][2]
        /\ \A i, j \in Fetches : i < j => log[i][2] < log[j][2]
        /\ \A i \in Fetches :
              /\ i >= 3
              /\ log[i - 1][1] = "sleep"
              /\ log[i - 2][1] = "robots"
              /\ log[i - 2][2] = log[i][2]
              /\ log[i - 2][3]
        /\ \A i \in RobotsChecks :
              ~log[i][3] => \A j \in Fetches : log[j][2] /= log[i][2]
        /\ Cardinality(Fetches) <= Len(crawl.names)

\* C21 witness: of two listed names the first was disallowed and the second
\* was requested after its check and the delay; the walk is done with one
\* request for two names.
C21_Witness ==
    /\ crawl.site = "harvard" /\ crawl.pc = "done"
    /\ Len(crawl.names) = 2
    /\ Len(log) = 4
    /\ log[1][1] = "robots" /\ log[1][2] = 1 /\ ~log[1][3]
    /\ log[2][1] = "robots" /\ log[2][2] = 2 /\ log[2][3]
    /\ log[3][1] = "sleep"
    /\ log[4][1] = "fetch" /\ log[4][2] = 2
    /\ Len(crawl.result) = 1

\* C22: after any sequence of saves to both backends from empty, the flat
\* file and the table hold the same set of normalized emails, neither holds
\* two rows with the same normalized email, and the last save returned the
\* same count from both.
C22_BackendsAgree ==
    LET file == [i \in 1..(Len(fs.csv.recs) - 1) |-> ReaderRows(fs.csv)[i][EMAIL]]
        table == [i \in 1..Len(fs.db) |-> fs.db[i].email]
    IN  /\ {Norm(file[i]) : i \in 1..Len(file)} = {Norm(table[i]) : i \in 1..Len(table)}
        /\ \A i, j \in 1..Len(file) : Norm(file[i]) = Norm(file[j]) => i = j
        /\ \A i, j \in 1..Len(table) : Norm(table[i]) = Norm(table[j]) => i = j
        /\ res.csv = res.db

\* the calls of register for a key, and the parser of the last of them
RegisterCalls(key) == {i \in 1..Len(log) : log[i][1] = "register" /\ log[i][2] = key}
LastRegistered(key) ==
    log[CHOOSE i \in RegisterCalls(key) : \A j \in RegisterCalls(key) : j <= i][3]

\* C23 as stated: get returns the parser registered last under the key for
\* every key that was registered, and the generic parser for every other.
C23_AsStated ==
    op = "get" =>
        res = IF RegisterCalls(xs) /= {} THEN LastRegistered(xs) ELSE generic_parser

\* C23 amended: get returns the parser registered last under the key for
\* every non-empty key that was registered, and the generic parser for None,
\* for the empty key (registered or not) and for every key not registered,
\* a built-in key whose module did not load included.
C23_ResolveFallsBack ==
    op = "get" =>
        res = IF xs /= NoSite /\ xs /= "" /\ RegisterCalls(xs) /= {}
              THEN LastRegistered(xs) ELSE generic_parser

\* C23 witness: the key duke, registered at start-up and twice afterwards,
\* resolves to the parser registered last, while the built-in key harvard,
\* whose module did not load, was never registered.
C23_Witness ==
    /\ op = "get" /\ xs = "duke"
    /\ Cardinality(RegisterCalls("duke")) = 3
    /\ RegisterCalls("harvard") = {}
    /\ res \in UserParsers /\ res = LastRegistered("duke")

\* C24: the generic parser, on a page whose one mailto anchor reads Contact
\* and has the heading Jane Roe as a sibling, gives the contact the name
\* Jane Roe and not Contact.
C24_LabelNotName ==
    (/\ op = "parse_generic"
     /\ xs.text = S_Contact
     /\ \E i \in 1..Len(xs.siblings) :
           xs.siblings[i].kind = "heading" /\ xs.siblings[i].text = S_Jane)
    => /\ Len(res) = 1
       /\ res[1].name = S_Jane
       /\ res[1].name /= S_Contact

\* C29: whichever search gives it, a name is absent or a non-empty text with
\* no @ and of at most twelve words, the widest bound of the searches.
C29_NameWithinBound ==
    op \in {"generic", "columbia", "yale", "duke"} =>
        \/ res = None
        \/ res /= <<>> /\ ~Contains(res, <<"@">>) /\ WordCount(res) <= 12

\* C25: a site parser never raises, whatever the page and the seed URL hold:
\* a walk never ends with an exception of the parser.
C25_ParserNeverRaises ==
    crawl.site \in Sites => crawl.raised = ""

\* the most continuation pages a walk may ask for
WalkBound ==
    IF crawl.site = "columbia" THEN MAX_PAGES
    ELSE IF Ceiling > crawl.start_page THEN Ceiling - crawl.start_page ELSE 0

\* C26: every pagination walk ends, whatever the pages hold and whether
\* requests fail or not, and never asks for more continuation pages than 40
\* (Columbia), 28 - start (Yale), 20 - start (Penn State), none when the
\* start is at or past the ceiling.
C26_WalkTerminates ==
    /\ [](crawl.site \in PageWalkers => Cardinality(Fetches) <= WalkBound)
    /\ <>(crawl.pc = "done")

\* C26 witness: a Columbia walk over a listing where every page has a new
\* contact and no request fails is done after 40 continuation pages.
C26_Witness ==
    /\ crawl.site = "columbia" /\ crawl.pc = "done" /\ crawl.endless
    /\ crawl.failed = 0 /\ crawl.stale = 0
    /\ Cardinality(Fetches) = MAX_PAGES
    /\ Len(crawl.result) >= MAX_PAGES

\* C27: at every point of a pagination walk no two contacts of the
\* accumulator have the same normalized email.
C27_AccumulatorUnique ==
    crawl.site \in PageWalkers =>
        \A i, j \in 1..Len(crawl.contacts) :
            Norm(crawl.contacts[i].email) = Norm(crawl.contacts[j].email) => i = j

\* C28: every contact a parser gives has a non-empty email that the
\* validator accepts.
C28_YieldedEmailsValid ==
    op \in {"duke", "nyu", "harvard", "generic"} =>
        \A i \in 1..Len(res) : res[i].email /= <<>> /\ is_valid_email(res[i].email)

\* C30: once an appending run and a reconciling run on the same store have
\* both finished, every row the appending run wrote (and counted) is in the
\* store file.
C30_AppendedRowsKept ==
    (procs[1].pc = "done" /\ pc = "done") =>
        /\ procs[1].count = Len(procs[1].written)
        /\ \A i \in 1..Len(procs[1].written) :
              \E j \in 2..Len(fs.csv.recs) : fs.csv.recs[j][2] = procs[1].written[i][2]

====
